---------------------------- MODULE Spec2Model ----------------------------
(***************************************************************************)
(* A model of pmbus_peek.c: the PMBus transport (byte, word and block      *)
(* transfers, the block read with its PEC handling and raw-message         *)
(* fallback), the QUERY negotiation with its per-command slot table, the   *)
(* COEFFICIENTS retrieval, the full sweep of the command catalog, the      *)
(* decoders of the value report, the command listing, and main() from the  *)
(* test of the adapter's functionality to its return.                      *)
(*                                                                         *)
(* The device and the bus adapter are the environment: every ioctl result  *)
(* and every byte the device returns is drawn from a small set at the      *)
(* exchange that consumes it.                                              *)
(***************************************************************************)
EXTENDS Integers, Sequences, FiniteSets, TLC

(***************************************************************************)
(* Fixed-width integers.                                                   *)
(***************************************************************************)
\* bit n of the non-negative integer x
Bit(x, n) == (x \div (2 ^ n)) % 2 = 1

\* conversion to s8 / s16 as the C assignments do it
S8(x) == IF x % 256 >= 128 THEN (x % 256) - 256 ELSE x % 256

S16(x) == IF x % 65536 >= 32768 THEN (x % 65536) - 65536 ELSE x % 65536

(***************************************************************************)
(* Command codes and flags the code names.                                 *)
(***************************************************************************)
PMB_CLEAR_FAULT == 3

PMB_CAPABILITY == 25

PMB_QUERY == 26

PMB_VOUT_MODE == 32

PMB_COEFFICIENTS == 48

PMB_STATUS_BYTE == 120

PMB_STATUS_WORD == 121

PMB_STATUS_VOUT == 122

PMB_PMBUS_REVISION == 152

PMB_MFR_ID == 153

FLG_SHOW_P1 == 1

FLG_STATUS == 2

FLG_FORMAT_VOUT == 4

I2C_SMBUS_BLOCK_MAX == 32

\* errno values returned negated by the transport
EPERM == 1

E2BIG == 7

EINVAL == 22

EFBIG == 27

ENOSYS == 38

EOPNOTSUPP == 95

is_pmb_8bit(cmd) == (cmd \div 256) = 0 /\ ((cmd % 256) \div 2) * 2 # 254

is_pmb_extended(cmd) == (cmd \div 512) * 512 = 65024

(***************************************************************************)
(* The command catalog, in the order of the source table.  The model keeps *)
(* one entry of every shape the negotiation and the reports distinguish:   *)
(* the first entry (code 0), the no-data command CLEAR_FAULT, a code       *)
(* listed twice (0x05), CAPABILITY, QUERY, VOUT_MODE, a VOUT-format word   *)
(* command that precedes COEFFICIENTS, COEFFICIENTS, a word command that   *)
(* follows it, the status byte, the status word (the one entry with the    *)
(* unit BITS) and the first of the detailed status registers,              *)
(* PMBUS_REVISION, a manufacturer specific command and the prefix code     *)
(* 0xFE.  The sentinel with the empty tag is the end of the sequence.      *)
(***************************************************************************)
pmbus_ops ==
  << [cmd |-> 0,   tag |-> "page",                     type |-> "RW1",       units |-> "",      flags |-> 0],
     [cmd |-> 3,   tag |-> "clear_fault",              type |-> "W0",        units |-> "",      flags |-> 0],
     [cmd |-> 5,   tag |-> "page_plus_write",          type |-> "RWB",       units |-> "",      flags |-> 0],
     [cmd |-> 5,   tag |-> "page_plus_read",           type |-> "RWB",       units |-> "",      flags |-> 0],
     [cmd |-> 25,  tag |-> "capability",               type |-> "R1",        units |-> "",      flags |-> FLG_SHOW_P1],
     [cmd |-> 26,  tag |-> "query",                    type |-> "RWP_QUERY", units |-> "",      flags |-> 0],
     [cmd |-> 32,  tag |-> "vout_mode",                type |-> "RW1",       units |-> "",      flags |-> 0],
     [cmd |-> 36,  tag |-> "vout_max",                 type |-> "RW2",       units |-> "VOLTS", flags |-> FLG_FORMAT_VOUT],
     [cmd |-> 48,  tag |-> "coefficients",             type |-> "RWP_COEFF", units |-> "",      flags |-> 0],
     [cmd |-> 49,  tag |-> "pout_max",                 type |-> "RW2",       units |-> "WATTS", flags |-> 0],
     [cmd |-> 120, tag |-> "status_byte",              type |-> "R1",        units |-> "",      flags |-> FLG_STATUS],
     [cmd |-> 121, tag |-> "status_word",              type |-> "R2",        units |-> "BITS",  flags |-> FLG_STATUS],
     [cmd |-> 122, tag |-> "status_vout",              type |-> "R1",        units |-> "",      flags |-> FLG_STATUS],
     [cmd |-> 152, tag |-> "pmbus_revision",           type |-> "R1",        units |-> "",      flags |-> FLG_SHOW_P1],
     [cmd |-> 208, tag |-> "mfr_specific_00",          type |-> "",          units |-> "",      flags |-> 0],
     [cmd |-> 254, tag |-> "mfr_specific_command_ext", type |-> "",          units |-> "",      flags |-> 0] >>

NOPS == Len(pmbus_ops)

\* the command codes that have a slot in the model's table: those of the
\* catalog, and 0x06 and MFR_ID, core codes the model's catalog does not list
SlotCodes == {pmbus_ops[i].cmd : i \in 1..NOPS} \cup {6, PMB_MFR_ID}

\* values of a slot pmdev->op[cmd]: NULL, &unsupported, or &pmbus_ops[i] (i)
NULL == 0

unsupported == -1


(***************************************************************************)
(* State.                                                                  *)
(***************************************************************************)
VARIABLES
  args,        \* main()'s options: -p, -g (page, or -1), -s, -l, -C, -m (or 0)
  funcs,       \* pmdev->funcs: the adapter's capability bits, as a set of names
  enable_pec,  \* enable_pec: the -p option until main() clears it for an
               \* adapter without PEC
  op,          \* pmdev->op[]: slot per command code
  desc,        \* the mutable part of pmbus_ops[i]: query byte and c[0], c[1]
  no_query,    \* pmdev->no_query
  use_pec,     \* pmdev->use_pec
  capability,  \* pmdev->capability
  revision,    \* pmdev->revision
  pec,         \* the adapter's PEC setting for this client (I2C_PEC)
  pc,          \* the position in main(): "main" before the adapter is tested,
               \* the step of pmbus_dev_scan to run, "page", "idle" (in
               \* pmbus_dev_show), "sweep", "values", "shown" (status and
               \* values reported), "commands", "clear",
               \* "mfr", and "exit" (returned 1) or "done" (returned 0)
  idx,         \* the position of the loop that runs: in pmbus_ops while
               \* pc = "sweep", in pmdev->op while pc is "values" or "commands"
  bus,         \* the bus transactions of the latest step, in order, each
               \* <<kind, command, argument, result>>
  last,        \* the latest step: function, command, return value, length
               \* argument and bytes delivered
  said,        \* the commands for which checksupport has returned 0
  calls        \* operations started and non-plain answers consumed so far,
               \* and the commands whose read-direction coefficients have
               \* been asked for

vars == <<args, funcs, enable_pec, op, desc, no_query, use_pec, capability,
          revision, pec, pc, idx, bus, last, said, calls>>

\* bounds of a session: calls of checksupport after the scan, full sweeps, and
\* exchanges of the negotiation and the scan whose outcome is not the plain one
MaxProbes == 2

MaxSweeps == 1

MaxDeviations == 2

\* the options of a run that reports (-s -l) and selects no page
Reporting ==
  [pec |-> 0, page |-> -1, show |-> TRUE, list |-> TRUE, clear |-> FALSE,
   mfr_cmd |-> 0]

\* struct pmbus_coefficients after static zero initialisation
NoCoefficients == [valid |-> 0, R |-> 0, m |-> 0, b |-> 0]

\* the device-variable part of a struct pmbus_cmd_desc, zero initialised
NoDesc == [query |-> 0, c |-> [d \in 0..1 |-> NoCoefficients]]

\* main()'s test of the adapter's functionality before it attaches; byte,
\* word and process-call support are required and therefore not modelled
Attachable(f) ==
  /\ ("READ_BLOCK_DATA" \in f \/ "I2C" \in f)
  /\ ("BLOCK_PROC_CALL" \in f \/ "I2C" \in f)

(***************************************************************************)
(* What the device and the adapter may answer.                             *)
(***************************************************************************)
\* high byte of a QUERY answer.  0x6C: not supported (bit 7 clear, the other
\* bits as for a DIRECT read/write command); 0xA0: supported, readable,
\* LINEAR; 0xAC, 0xCC, 0xEC: supported, DIRECT, readable / writable / both
QueryBytes == {108, 160, 172, 204, 236}

\* outcome of the QUERY process call: the ioctl fails, or the word returned
\* has low byte lo and high byte hi.  The plain device reports pout_max
\* (0x31) as a readable DIRECT command and every other command as LINEAR.
PlainQuery(cmd) == [fail |-> FALSE, lo |-> 1, hi |-> IF cmd = 49 THEN 172 ELSE 160]

QueryResponses(cmd) ==
  {[fail |-> TRUE, lo |-> 1, hi |-> cmd], [fail |-> FALSE, lo |-> 0, hi |-> 160]}
    \cup {[fail |-> FALSE, lo |-> 1, hi |-> h] : h \in QueryBytes}

\* outcome of the COEFFICIENTS exchange: block[0..5] as the code indexes it
PlainCoeff == [fail |-> FALSE, block |-> <<5, 255, 255, 156, 255, 254>>]

NoCoeff == [fail |-> TRUE, block |-> <<0, 0, 0, 0, 0, 0>>]

CoeffResponses ==
  {NoCoeff, [fail |-> FALSE, block |-> <<4, 9, 0, 9, 0, 9>>], PlainCoeff}

\* outcome of a byte-read ioctl on a register: the byte, or -errno
PlainByte(cmd) ==
  IF cmd = PMB_CAPABILITY THEN 176
  ELSE IF cmd \in {PMB_STATUS_BYTE, PMB_STATUS_WORD, PMB_STATUS_VOUT} THEN 0
  ELSE IF cmd = PMB_PMBUS_REVISION THEN 17
  ELSE IF cmd = PMB_MFR_ID THEN 5
  ELSE 23

ByteResults(cmd) ==
  {-EPERM, PlainByte(cmd)} \cup (IF cmd = PMB_VOUT_MODE THEN {64}
                                  ELSE IF cmd = PMB_CAPABILITY THEN {48}
                                  ELSE {})

\* outcome of an ioctl that returns no data: 0, or -errno
IoctlResults == {0, -EPERM}

\* the answers one call of query() may consume; an exchange that the answer
\* to QUERY rules out is given one fixed outcome, which nothing reads
Accepted(q) == ~q.fail /\ q.lo = 1 /\ Bit(q.hi, 7)

Fetches(q, dir) == Accepted(q) /\ ((q.hi \div 4) % 8) = 3 /\ Bit(q.hi, 6 - dir)

AllResponses(cmd) ==
  UNION { { [q |-> q, cr |-> a, cw |-> b, vm |-> v] :
              a \in IF Fetches(q, 1) THEN CoeffResponses ELSE {NoCoeff},
              b \in IF Fetches(q, 0) THEN CoeffResponses ELSE {NoCoeff},
              v \in IF Accepted(q) /\ cmd = PMB_VOUT_MODE
                     THEN ByteResults(cmd) ELSE {-EPERM} } :
          q \in QueryResponses(cmd) }

NoResponse == [q |-> PlainQuery(0), cr |-> NoCoeff, cw |-> NoCoeff, vm |-> -EPERM]

\* the session's bound on non-plain outcomes
Plain(t) ==
  \/ t[1] = "QUERY" /\ t[4] = PlainQuery(t[2]).hi * 256 + 1
  \/ t[1] = "COEFFICIENTS" /\ t[4] = 5
  \/ t[1] \in {"READ_BYTE", "READ_WORD"} /\ t[4] = PlainByte(t[2])
  \/ t[1] \in {"QUICK", "I2C_PEC", "SEND_BYTE", "WRITE_BYTE", "WRITE_WORD",
               "WRITE_BLOCK"}
       /\ t[4] = 0
  \/ t[1] = "READ_BLOCK" /\ t[4] = 5
  \/ t[1] = "I2C_RDWR" /\ t[4] \in {0, t[3] - 1}

Deviations(b) == Cardinality({k \in 1..Len(b) : ~Plain(b[k])})

Cost(cmd, r) ==
  (IF r.q = PlainQuery(cmd) THEN 0 ELSE 1)
  + (IF Fetches(r.q, 1) /\ r.cr # PlainCoeff THEN 1 ELSE 0)
  + (IF Fetches(r.q, 0) /\ r.cw # PlainCoeff THEN 1 ELSE 0)

Affordable(cmd) == {r \in AllResponses(cmd) : calls.dev + Cost(cmd, r) <= MaxDeviations}

\* a call of checksupport draws answers only when it can reach an exchange
Responses(cmd) ==
  IF ~is_pmb_extended(cmd) /\ op[cmd] = NULL /\ no_query = 0
  THEN Affordable(cmd)
  ELSE {NoResponse}

(***************************************************************************)
(* Byte and word transfers.                                               *)
(***************************************************************************)
\* pmbus_read_byte_data: the value returned, r being the ioctl's outcome
pmbus_read_byte_data(cmd, r) ==
  IF is_pmb_extended(cmd) THEN -ENOSYS
  ELSE IF ~is_pmb_8bit(cmd) THEN -EINVAL
  ELSE r

\* pmbus_read_word_data: the value returned, r being the ioctl's outcome
pmbus_read_word_data(cmd, r) ==
  IF is_pmb_extended(cmd) THEN -ENOSYS
  ELSE IF ~is_pmb_8bit(cmd) THEN -EINVAL
  ELSE r

\* pmbus_write_byte_data: the value returned, r being 0 or the ioctl's -errno
pmbus_write_byte_data(cmd, r) ==
  IF is_pmb_extended(cmd) THEN -ENOSYS
  ELSE IF ~is_pmb_8bit(cmd) THEN -EINVAL
  ELSE r

\* pmbus_write_word_data without its test for extended command codes
pmbus_write_word_data_untested(cmd, r) ==
  IF ~is_pmb_8bit(cmd) THEN -EINVAL
  ELSE r

\* pmbus_write_word_data: the value returned, r being 0 or the ioctl's -errno
pmbus_write_word_data(cmd, r) ==
  IF is_pmb_extended(cmd) THEN -ENOSYS
  ELSE IF ~is_pmb_8bit(cmd) THEN -EINVAL
  ELSE r

\* the bytes of the caller's write_buf, which the model fixes by position
WriteData(k) == (k * 11 + 3) % 256

\* pmbus_write_block testing the command code before the buffer
pmbus_write_block_command_first(cmd, write_len, write_buf, r) ==
  LET none == [ret |-> 0, bus |-> <<>>]
      payload == [k \in 1..write_len |-> WriteData(k)]
      try_i2c(retval) ==
        IF "I2C" \in funcs
        THEN [ret |-> r, bus |-> << <<"I2C_RDWR", cmd, 2 + write_len, r,
                                      <<cmd % 256, write_len>> \o payload>> >>]
        ELSE [none EXCEPT !.ret = retval]
  IN IF is_pmb_extended(cmd) THEN [none EXCEPT !.ret = -ENOSYS]
     ELSE IF ~is_pmb_8bit(cmd) THEN [none EXCEPT !.ret = -EINVAL]
     ELSE IF write_buf = NULL \/ write_len = 0 \/ write_len > 255
     THEN [none EXCEPT !.ret = -EINVAL]
     ELSE IF "WRITE_BLOCK_DATA" \notin funcs THEN try_i2c(-EOPNOTSUPP)
     ELSE IF write_len > I2C_SMBUS_BLOCK_MAX THEN try_i2c(-EFBIG)
     ELSE [ret |-> r, bus |-> << <<"WRITE_BLOCK", cmd, write_len, r,
                                   <<write_len>> \o payload>> >>]

\* pmbus_write_block without the limit of the SMBus block write
pmbus_write_block_unlimited(cmd, write_len, write_buf, r) ==
  LET none == [ret |-> 0, bus |-> <<>>]
      payload == [k \in 1..write_len |-> WriteData(k)]
      try_i2c(retval) ==
        IF "I2C" \in funcs
        THEN [ret |-> r, bus |-> << <<"I2C_RDWR", cmd, 2 + write_len, r,
                                      <<cmd % 256, write_len>> \o payload>> >>]
        ELSE [none EXCEPT !.ret = retval]
  IN IF write_buf = NULL \/ write_len = 0 \/ write_len > 255
     THEN [none EXCEPT !.ret = -EINVAL]
     ELSE IF is_pmb_extended(cmd) THEN [none EXCEPT !.ret = -ENOSYS]
     ELSE IF ~is_pmb_8bit(cmd) THEN [none EXCEPT !.ret = -EINVAL]
     ELSE IF "WRITE_BLOCK_DATA" \notin funcs THEN try_i2c(-EOPNOTSUPP)
     ELSE [ret |-> r, bus |-> << <<"WRITE_BLOCK", cmd, write_len, r,
                                   <<write_len>> \o payload>> >>]

\* pmbus_write_block: the value returned and the transactions made, r being
\* the outcome (0 or -errno) of the one ioctl the call makes.  A write's
\* transaction carries the bytes handed to the adapter as a fifth field:
\* data.block for the SMBus block write, msg.buf for the I2C message.
pmbus_write_block(cmd, write_len, write_buf, r) ==
  LET none == [ret |-> 0, bus |-> <<>>]
      payload == [k \in 1..write_len |-> WriteData(k)]
      try_i2c(retval) ==
        IF "I2C" \in funcs
        THEN [ret |-> r, bus |-> << <<"I2C_RDWR", cmd, 2 + write_len, r,
                                      <<cmd % 256, write_len>> \o payload>> >>]
        ELSE [none EXCEPT !.ret = retval]
  IN IF write_buf = NULL \/ write_len = 0 \/ write_len > 255
     THEN [none EXCEPT !.ret = -EINVAL]
     ELSE IF is_pmb_extended(cmd) THEN [none EXCEPT !.ret = -ENOSYS]
     ELSE IF ~is_pmb_8bit(cmd) THEN [none EXCEPT !.ret = -EINVAL]
     ELSE IF "WRITE_BLOCK_DATA" \notin funcs THEN try_i2c(-EOPNOTSUPP)
     ELSE IF write_len > I2C_SMBUS_BLOCK_MAX THEN try_i2c(-EFBIG)
     ELSE [ret |-> r, bus |-> << <<"WRITE_BLOCK", cmd, write_len, r,
                                   <<write_len>> \o payload>> >>]

\* the transaction pmbus_read_byte_data puts on the bus, if any
read_byte_bus(cmd, r) ==
  IF is_pmb_extended(cmd) \/ ~is_pmb_8bit(cmd) THEN <<>>
  ELSE << <<"READ_BYTE", cmd, 0, r>> >>

(***************************************************************************)
(* coefficients(pmdev, op, read).  S is the session record [op, desc,      *)
(* no_query, bus]; i is the index of the descriptor in pmbus_ops.          *)
(***************************************************************************)
\* coefficients that resets the record before it asks the device
coefficients_clearing(S, i, read, r) ==
  LET cmd == pmbus_ops[i].cmd
      blk == r.block
      sent == [S EXCEPT !.desc[i].c[read] = NoCoefficients,
                        !.bus = Append(@, <<"COEFFICIENTS", cmd, read,
                                            IF r.fail THEN -1 ELSE blk[1]>>)]
  IN IF "BLOCK_PROC_CALL" \notin funcs /\ "I2C" \notin funcs THEN S
     ELSE IF r.fail THEN sent
     ELSE IF blk[1] # 5 THEN sent
     ELSE [sent EXCEPT !.desc[i].c[read] =
             [valid |-> 1,
              m |-> S16(blk[3] * 256 + blk[2]),
              b |-> S16(blk[5] * 256 + blk[4]),
              R |-> S8(blk[6])]]

\* coefficients without the test of the response's length byte
coefficients_any_length(S, i, read, r) ==
  LET cmd == pmbus_ops[i].cmd
      blk == r.block
      sent == [S EXCEPT !.bus = Append(@, <<"COEFFICIENTS", cmd, read,
                                            IF r.fail THEN -1 ELSE blk[1]>>)]
  IN IF "BLOCK_PROC_CALL" \notin funcs /\ "I2C" \notin funcs THEN S
     ELSE IF r.fail THEN sent
     ELSE [sent EXCEPT !.desc[i].c[read] =
             [valid |-> 1,
              m |-> S16(blk[3] * 256 + blk[2]),
              b |-> S16(blk[5] * 256 + blk[4]),
              R |-> S8(blk[6])]]

\* coefficients that keeps the response's bytes unsigned
coefficients_unsigned(S, i, read, r) ==
  LET cmd == pmbus_ops[i].cmd
      blk == r.block
      sent == [S EXCEPT !.bus = Append(@, <<"COEFFICIENTS", cmd, read,
                                            IF r.fail THEN -1 ELSE blk[1]>>)]
  IN IF "BLOCK_PROC_CALL" \notin funcs /\ "I2C" \notin funcs THEN S
     ELSE IF r.fail THEN sent
     ELSE IF blk[1] # 5 THEN sent
     ELSE [sent EXCEPT !.desc[i].c[read] =
             [valid |-> 1,
              m |-> blk[3] * 256 + blk[2],
              b |-> blk[5] * 256 + blk[4],
              R |-> blk[6]]]

coefficients(S, i, read, r) ==
  LET cmd == pmbus_ops[i].cmd
      blk == r.block
      sent == [S EXCEPT !.bus = Append(@, <<"COEFFICIENTS", cmd, read,
                                            IF r.fail THEN -1 ELSE blk[1]>>)]
  IN IF "BLOCK_PROC_CALL" \notin funcs /\ "I2C" \notin funcs THEN S
     ELSE IF r.fail THEN sent
     ELSE IF blk[1] # 5 THEN sent
     ELSE [sent EXCEPT !.desc[i].c[read] =
             [valid |-> 1,
              m |-> S16(blk[3] * 256 + blk[2]),
              b |-> S16(blk[5] * 256 + blk[4]),
              R |-> S8(blk[6])]]

(***************************************************************************)
(* query(pmdev, op)                                                        *)
(***************************************************************************)
\* query that stores the answer's high byte before it tests bit 7
query_storing_first(S, i, r) ==
  LET cmd == pmbus_ops[i].cmd
      word == r.q.hi
      asked == [S EXCEPT !.bus = Append(@, <<"QUERY", cmd, 0,
                   IF r.q.fail THEN -1 ELSE r.q.hi * 256 + r.q.lo>>)]
      stored == [asked EXCEPT !.desc[i].query = word]
      bound == [stored EXCEPT !.op[cmd] = i]
      direct == ((word \div 4) % 8) = 3 /\ bound.op[PMB_COEFFICIENTS] # NULL
      afterR == IF direct /\ Bit(word, 5) THEN coefficients(bound, i, 1, r.cr)
                ELSE bound
      afterW == IF direct /\ Bit(word, 6) THEN coefficients(afterR, i, 0, r.cw)
                ELSE afterR
      value == pmbus_read_byte_data(cmd, r.vm)
  IN IF cmd > 255 THEN S
     ELSE IF r.q.fail \/ r.q.lo # 1 THEN [asked EXCEPT !.no_query = 1]
     ELSE IF ~Bit(word, 7) THEN [stored EXCEPT !.op[cmd] = unsupported]
     ELSE IF cmd = PMB_VOUT_MODE
          THEN [afterW EXCEPT !.desc[i].c[0].R = S8(value),
                              !.desc[i].c[1].R = S8(value),
                              !.bus = @ \o read_byte_bus(cmd, r.vm)]
          ELSE afterW

\* query that leaves the slot of a command the device does not support as
\* it was
query_leaving_unsupported(S, i, r) ==
  LET cmd == pmbus_ops[i].cmd
      word == r.q.hi
      asked == [S EXCEPT !.bus = Append(@, <<"QUERY", cmd, 0,
                   IF r.q.fail THEN -1 ELSE r.q.hi * 256 + r.q.lo>>)]
      bound == [asked EXCEPT !.desc[i].query = word, !.op[cmd] = i]
      direct == ((word \div 4) % 8) = 3 /\ bound.op[PMB_COEFFICIENTS] # NULL
      afterR == IF direct /\ Bit(word, 5) THEN coefficients(bound, i, 1, r.cr)
                ELSE bound
      afterW == IF direct /\ Bit(word, 6) THEN coefficients(afterR, i, 0, r.cw)
                ELSE afterR
      value == pmbus_read_byte_data(cmd, r.vm)
  IN IF cmd > 255 THEN S
     ELSE IF r.q.fail \/ r.q.lo # 1 THEN [asked EXCEPT !.no_query = 1]
     ELSE IF ~Bit(word, 7) THEN asked
     ELSE IF cmd = PMB_VOUT_MODE
          THEN [afterW EXCEPT !.desc[i].c[0].R = S8(value),
                              !.desc[i].c[1].R = S8(value),
                              !.bus = @ \o read_byte_bus(cmd, r.vm)]
          ELSE afterW

\* query that clears the slot when the exchange fails
query_forgetting(S, i, r) ==
  LET cmd == pmbus_ops[i].cmd
      word == r.q.hi
      asked == [S EXCEPT !.bus = Append(@, <<"QUERY", cmd, 0,
                   IF r.q.fail THEN -1 ELSE r.q.hi * 256 + r.q.lo>>)]
      bound == [asked EXCEPT !.desc[i].query = word, !.op[cmd] = i]
      direct == ((word \div 4) % 8) = 3 /\ bound.op[PMB_COEFFICIENTS] # NULL
      afterR == IF direct /\ Bit(word, 5) THEN coefficients(bound, i, 1, r.cr)
                ELSE bound
      afterW == IF direct /\ Bit(word, 6) THEN coefficients(afterR, i, 0, r.cw)
                ELSE afterR
      value == pmbus_read_byte_data(cmd, r.vm)
  IN IF cmd > 255 THEN S
     ELSE IF r.q.fail \/ r.q.lo # 1
          THEN [asked EXCEPT !.no_query = 1, !.op[cmd] = NULL]
     ELSE IF ~Bit(word, 7) THEN [asked EXCEPT !.op[cmd] = unsupported]
     ELSE IF cmd = PMB_VOUT_MODE
          THEN [afterW EXCEPT !.desc[i].c[0].R = S8(value),
                              !.desc[i].c[1].R = S8(value),
                              !.bus = @ \o read_byte_bus(cmd, r.vm)]
          ELSE afterW

query(S, i, r) ==
  LET cmd == pmbus_ops[i].cmd
      word == r.q.hi
      asked == [S EXCEPT !.bus = Append(@, <<"QUERY", cmd, 0,
                   IF r.q.fail THEN -1 ELSE r.q.hi * 256 + r.q.lo>>)]
      bound == [asked EXCEPT !.desc[i].query = word, !.op[cmd] = i]
      direct == ((word \div 4) % 8) = 3 /\ bound.op[PMB_COEFFICIENTS] # NULL
      afterR == IF direct /\ Bit(word, 5) THEN coefficients(bound, i, 1, r.cr)
                ELSE bound
      afterW == IF direct /\ Bit(word, 6) THEN coefficients(afterR, i, 0, r.cw)
                ELSE afterR
      value == pmbus_read_byte_data(cmd, r.vm)
  IN IF cmd > 255 THEN S
     ELSE IF r.q.fail \/ r.q.lo # 1 THEN [asked EXCEPT !.no_query = 1]
     ELSE IF ~Bit(word, 7) THEN [asked EXCEPT !.op[cmd] = unsupported]
     ELSE IF cmd = PMB_VOUT_MODE
          THEN [afterW EXCEPT !.desc[i].c[0].R = S8(value),
                              !.desc[i].c[1].R = S8(value),
                              !.bus = @ \o read_byte_bus(cmd, r.vm)]
          ELSE afterW

(***************************************************************************)
(* checksupport(pmdev, cmd): the session after the call, and in ret the    *)
(* value returned (negative: can't tell, 0: no, 1: yes).                   *)
(***************************************************************************)
\* the catalog entries whose code is cmd; the lookup loop stops at the first
Matches(cmd) == {i \in 1..NOPS : pmbus_ops[i].cmd = cmd}

FirstMatch(cmd) == CHOOSE i \in Matches(cmd) : \A j \in Matches(cmd) : i <= j

\* checksupport without the test of no_query before the lookup
checksupport_ignoring_no_query(S, cmd, r) ==
  LET T == IF S.op[cmd] = NULL /\ S.no_query = 0 /\ Matches(cmd) # {}
           THEN query(S, FirstMatch(cmd), r)
           ELSE S
  IN IF is_pmb_extended(cmd) THEN [S |-> S, ret |-> -1]
     ELSE IF S.op[PMB_QUERY] = unsupported THEN [S |-> S, ret |-> -1]
     ELSE [S |-> T, ret |-> IF T.op[cmd] # unsupported THEN 1 ELSE 0]

\* checksupport without the early return for extended command codes
checksupport_probing_extended(S, cmd, r) ==
  LET T == IF S.op[cmd] = NULL /\ S.no_query = 0 /\ Matches(cmd) # {}
           THEN query(S, FirstMatch(cmd), r)
           ELSE S
  IN IF S.op[PMB_QUERY] = unsupported \/ S.no_query # 0
     THEN [S |-> S, ret |-> -1]
     ELSE [S |-> T, ret |-> IF T.op[cmd] # unsupported THEN 1 ELSE 0]

checksupport(S, cmd, r) ==
  LET T == IF S.op[cmd] = NULL /\ S.no_query = 0 /\ Matches(cmd) # {}
           THEN query(S, FirstMatch(cmd), r)
           ELSE S
  IN IF is_pmb_extended(cmd) THEN [S |-> S, ret |-> -1]
     ELSE IF S.op[PMB_QUERY] = unsupported \/ S.no_query # 0
          THEN [S |-> S, ret |-> -1]
     ELSE [S |-> T, ret |-> IF T.op[cmd] # unsupported THEN 1 ELSE 0]

(***************************************************************************)
(* pmbus_read_block(pmdev, cmd, read_len, read_buf)                        *)
(***************************************************************************)
\* the k-th data byte of the block the device holds
DevData(k) == (k * 7 + 1) % 256

\* lengths the device may declare, buffer lengths callers pass, and the
\* counts the adapter's native block read may deliver (the kernel bounds
\* them by I2C_SMBUS_BLOCK_MAX)
DeclaredLens == {5, 32, 40}

ReadLens == {4, 20}

NativeCounts == {5, 32}

\* a byte of the stack buffer that no transfer has written
Junk == {0, 255}

\* outcomes of the exchanges of one block read: the two I2C_PEC ioctls, the
\* byte read of the length, the native block read (count n, or failure),
\* and the raw two-message transfer (its first byte n, or failure).  An
\* exchange the call cannot reach, or one the session's bound leaves no
\* room for, has its plain outcome only.
PlainBlock ==
  [off |-> 0, len |-> 5, on |-> 0, blk |-> [fail |-> FALSE, n |-> 5],
   i2c |-> [fail |-> FALSE, n |-> 5], junk |-> 0]

BlockResponses(cmd, read_len, read_buf) ==
  IF \/ read_buf = NULL \/ read_len = 0
     \/ is_pmb_extended(cmd) \/ ~is_pmb_8bit(cmd)
     \/ calls.dev >= MaxDeviations
  THEN {PlainBlock}
  ELSE UNION {
    { [off |-> a, len |-> l, on |-> b, blk |-> k, i2c |-> i, junk |-> j] :
        b \in (IF use_pec # 0 /\ l >= 0 THEN IoctlResults ELSE {0}),
        k \in (IF "READ_BLOCK_DATA" \in funcs /\ l >= 0 /\ l <= I2C_SMBUS_BLOCK_MAX
               THEN {[fail |-> TRUE, n |-> 0]}
                      \cup {[fail |-> FALSE, n |-> n] : n \in NativeCounts}
               ELSE {PlainBlock.blk}),
        i \in (IF "I2C" \in funcs /\ l >= 0
               THEN {[fail |-> TRUE, n |-> 0]}
                      \cup {[fail |-> FALSE, n |-> n] : n \in DeclaredLens}
               ELSE {PlainBlock.i2c}),
        j \in (IF "I2C" \in funcs /\ l >= 0 THEN Junk ELSE {0}) } :
    a \in (IF use_pec # 0 THEN IoctlResults ELSE {0}),
    l \in DeclaredLens \cup {-EPERM} }

\* ioctl(I2C_PEC) calls made whether or not the session uses PEC
set_pec_always(on, result) == << <<"I2C_PEC", 0, on, result>> >>

\* the ioctl(I2C_PEC) calls around the length read, made only with use_pec
set_pec(on, result) ==
  IF use_pec # 0 THEN << <<"I2C_PEC", 0, on, result>> >> ELSE <<>>

\* a length-versus-buffer check that reports a truncated block as complete
block_retval_truncating(n, read_len) == IF n <= read_len THEN n ELSE read_len

\* the length-versus-buffer check: the value returned for a block of n bytes
block_retval(n, read_len) == IF n <= read_len THEN n ELSE -E2BIG

\* try_i2c that fails with EOPNOTSUPP whenever the adapter has no raw I2C
try_i2c_unsupported(cmd, read_len, len, retval, r, at) ==
  LET sent == Append(at.bus, <<"I2C_RDWR", cmd, len + 1,
                               IF r.i2c.fail THEN -EPERM ELSE r.i2c.n>>)
      n == IF r.i2c.n <= read_len THEN r.i2c.n ELSE read_len
  IN IF "I2C" \notin funcs THEN [at EXCEPT !.ret = -EOPNOTSUPP]
     ELSE IF r.i2c.fail THEN [at EXCEPT !.ret = -EPERM, !.bus = sent]
     ELSE [at EXCEPT
             !.ret = block_retval(r.i2c.n, read_len),
             !.out = [k \in 1..n |-> IF k <= len THEN DevData(k) ELSE r.junk],
             !.bus = sent]

\* the label try_i2c: at is the result so far, len the declared length and
\* retval the error that led here
try_i2c(cmd, read_len, len, retval, r, at) ==
  LET sent == Append(at.bus, <<"I2C_RDWR", cmd, len + 1,
                               IF r.i2c.fail THEN -EPERM ELSE r.i2c.n>>)
      n == IF r.i2c.n <= read_len THEN r.i2c.n ELSE read_len
  IN IF "I2C" \notin funcs THEN [at EXCEPT !.ret = retval]
     ELSE IF r.i2c.fail THEN [at EXCEPT !.ret = -EPERM, !.bus = sent]
     ELSE [at EXCEPT
             !.ret = block_retval(r.i2c.n, read_len),
             !.out = [k \in 1..n |-> IF k <= len THEN DevData(k) ELSE r.junk],
             !.bus = sent]

\* the result: ret is the value returned, out the bytes stored in read_buf
\* from its start, pec the adapter's setting afterwards, bus the transactions
pmbus_read_block(cmd, read_len, read_buf, r) ==
  LET none == [ret |-> 0, out |-> <<>>, pec |-> pec, bus |-> <<>>]
      pec1 == IF use_pec # 0 /\ r.off = 0 THEN 0 ELSE pec
      len == pmbus_read_byte_data(cmd, r.len)
      bus1 == set_pec(0, r.off) \o read_byte_bus(cmd, r.len)
      pec2 == IF use_pec # 0 /\ r.on = 0 THEN 1 ELSE pec1
      at2 == [none EXCEPT !.pec = pec2, !.bus = bus1 \o set_pec(1, r.on)]
      at3 == [at2 EXCEPT !.bus = Append(@, <<"READ_BLOCK", cmd, 0,
                                 IF r.blk.fail THEN -EPERM ELSE r.blk.n>>)]
      m == IF r.blk.n <= read_len THEN r.blk.n ELSE read_len
  IN IF read_buf = NULL \/ read_len = 0 THEN [none EXCEPT !.ret = -EINVAL]
     ELSE IF is_pmb_extended(cmd) THEN [none EXCEPT !.ret = -ENOSYS]
     ELSE IF ~is_pmb_8bit(cmd) THEN [none EXCEPT !.ret = -EINVAL]
     ELSE IF len < 0 THEN [none EXCEPT !.ret = len, !.pec = pec1, !.bus = bus1]
     ELSE IF len > I2C_SMBUS_BLOCK_MAX
          THEN try_i2c(cmd, read_len, len, -EFBIG, r, at2)
     ELSE IF "READ_BLOCK_DATA" \notin funcs
          THEN try_i2c(cmd, read_len, len, -EOPNOTSUPP, r, at2)
     ELSE IF r.blk.fail THEN try_i2c(cmd, read_len, len, -EPERM, r, at3)
     ELSE IF r.blk.n <= read_len /\ r.blk.n > I2C_SMBUS_BLOCK_MAX
          THEN try_i2c(cmd, read_len, len, -EFBIG, r, at3)
     ELSE [at3 EXCEPT !.ret = block_retval(r.blk.n, read_len),
                      !.out = [k \in 1..m |-> DevData(k)]]

(***************************************************************************)
(* Steps of a session.                                                     *)
(***************************************************************************)
Session == [op |-> op, desc |-> desc, no_query |-> no_query, bus |-> <<>>]

\* the commands for which a step's transactions hold a read-direction
\* COEFFICIENTS exchange
ReadFetches(b) ==
  {b[k][2] : k \in {j \in 1..Len(b) : b[j][1] = "COEFFICIENTS" /\ b[j][3] = 1}}

\* store the session a call leaves behind, within the session's bounds
Install(T, fn) ==
  /\ calls.dev + Deviations(T.bus) <= MaxDeviations
  /\ calls' = [calls EXCEPT !.dev = @ + Deviations(T.bus),
                            !.checksupport = IF fn = "checksupport" THEN @ + 1 ELSE @,
                            !.fetched = @ \cup ReadFetches(T.bus)]
  /\ op' = T.op
  /\ desc' = T.desc
  /\ no_query' = T.no_query
  /\ bus' = T.bus

Did(fn, cmd, ret) ==
  [fn |-> fn, cmd |-> cmd, ret |-> ret, arg |-> 0, buf |-> NULL, out |-> <<>>]

Told(res, cmd) == IF res.ret = 0 THEN said \cup {cmd} ELSE said

\* the quick probe with its result ignored
ScanQuick_ignoring_failure ==
  /\ pc = "scan_quick"
  /\ \E status \in IoctlResults :
       /\ bus' = IF "QUICK" \in funcs THEN << <<"QUICK", 0, 0, status>> >> ELSE <<>>
       /\ calls.dev + Deviations(bus') <= MaxDeviations
       /\ calls' = [calls EXCEPT !.dev = @ + Deviations(bus')]
       /\ pc' = "scan_query" /\ last' = Did("pmbus_quick", 0, 0)
       /\ "QUICK" \notin funcs => status = 0
  /\ UNCHANGED <<args, funcs, enable_pec, op, desc, no_query, use_pec, capability,
                 revision, pec, idx, said>>

\* the quick probe made without the test of the adapter's functionality
ScanQuick_untested_funcs ==
  /\ pc = "scan_quick"
  /\ \E status \in IoctlResults :
       /\ bus' = << <<"QUICK", 0, 0, status>> >>
       /\ calls.dev + Deviations(bus') <= MaxDeviations
       /\ calls' = [calls EXCEPT !.dev = @ + Deviations(bus')]
       /\ IF status < 0
          THEN pc' = "exit" /\ last' = Did("pmbus_dev_scan", 0, status)
          ELSE pc' = "scan_query" /\ last' = Did("pmbus_quick", 0, 0)
  /\ UNCHANGED <<args, funcs, enable_pec, op, desc, no_query, use_pec, capability,
                 revision, pec, idx, said>>

\* pmbus_dev_scan, first part: the quick probe of the address
ScanQuick ==
  /\ pc = "scan_quick"
  /\ \E status \in IoctlResults :
       /\ bus' = IF "QUICK" \in funcs THEN << <<"QUICK", 0, 0, status>> >> ELSE <<>>
       /\ calls.dev + Deviations(bus') <= MaxDeviations
       /\ calls' = [calls EXCEPT !.dev = @ + Deviations(bus')]
       /\ IF "QUICK" \in funcs /\ status < 0
          THEN pc' = "exit" /\ last' = Did("pmbus_dev_scan", 0, status)
          ELSE pc' = "scan_query" /\ last' = Did("pmbus_quick", 0, 0)
       /\ "QUICK" \notin funcs => status = 0
  /\ UNCHANGED <<args, funcs, enable_pec, op, desc, no_query, use_pec, capability,
                 revision, pec, idx, said>>

\* pmbus_dev_scan, second part: checksupport(pmdev, PMB_QUERY)
ScanQuery ==
  /\ pc = "scan_query"
  /\ \E r \in Responses(PMB_QUERY) :
       LET res == checksupport(Session, PMB_QUERY, r)
       IN /\ Install(res.S, "pmbus_dev_scan")
          /\ last' = Did("checksupport", PMB_QUERY, res.ret)
          /\ said' = Told(res, PMB_QUERY)
  /\ pc' = "scan_capability"
  /\ UNCHANGED <<args, funcs, enable_pec, use_pec, capability, revision, pec, idx>>

\* the CAPABILITY step storing the status of the read without testing it
ScanCapability_storing_status ==
  /\ pc = "scan_capability"
  /\ \E r \in Responses(PMB_CAPABILITY), v \in ByteResults(PMB_CAPABILITY),
        e \in IoctlResults :
       LET res == checksupport(Session, PMB_CAPABILITY, r)
           status == pmbus_read_byte_data(PMB_CAPABILITY, v)
           reads == res.ret # 0
           wants == reads /\ status >= 0 /\ Bit(status, 7) /\ enable_pec # 0
           T == [res.S EXCEPT !.bus =
                   @ \o (IF reads THEN read_byte_bus(PMB_CAPABILITY, v) ELSE <<>>)
                     \o (IF wants THEN << <<"I2C_PEC", 0, 1, e>> >> ELSE <<>>)]
       IN /\ Install(T, "pmbus_dev_scan")
          /\ ~reads => v = PlainByte(PMB_CAPABILITY)
          /\ ~wants => e = 0
          /\ capability' = IF reads THEN status % 256 ELSE capability
          /\ use_pec' = IF wants /\ e = 0 THEN 1 ELSE use_pec
          /\ pec' = IF wants /\ e = 0 THEN 1 ELSE pec
          /\ last' = Did("checksupport", PMB_CAPABILITY, res.ret)
          /\ said' = Told(res, PMB_CAPABILITY)
  /\ pc' = "scan_revision"
  /\ UNCHANGED <<args, funcs, enable_pec, revision, idx>>

\* pmbus_dev_scan, third part: CAPABILITY, and PEC if the device has it
ScanCapability ==
  /\ pc = "scan_capability"
  /\ \E r \in Responses(PMB_CAPABILITY), v \in ByteResults(PMB_CAPABILITY),
        e \in IoctlResults :
       LET res == checksupport(Session, PMB_CAPABILITY, r)
           status == pmbus_read_byte_data(PMB_CAPABILITY, v)
           reads == res.ret # 0
           wants == reads /\ status >= 0 /\ Bit(status, 7) /\ enable_pec # 0
           T == [res.S EXCEPT !.bus =
                   @ \o (IF reads THEN read_byte_bus(PMB_CAPABILITY, v) ELSE <<>>)
                     \o (IF wants THEN << <<"I2C_PEC", 0, 1, e>> >> ELSE <<>>)]
       IN /\ Install(T, "pmbus_dev_scan")
          /\ ~reads => v = PlainByte(PMB_CAPABILITY)
          /\ ~wants => e = 0
          /\ capability' = IF reads /\ status >= 0 THEN status ELSE capability
          /\ use_pec' = IF wants /\ e = 0 THEN 1 ELSE use_pec
          /\ pec' = IF wants /\ e = 0 THEN 1 ELSE pec
          /\ last' = Did("checksupport", PMB_CAPABILITY, res.ret)
          /\ said' = Told(res, PMB_CAPABILITY)
  /\ pc' = "scan_revision"
  /\ UNCHANGED <<args, funcs, enable_pec, revision, idx>>

\* pmbus_dev_scan, last part: PMBUS_REVISION; returns 0
ScanRevision ==
  /\ pc = "scan_revision"
  /\ \E r \in Responses(PMB_PMBUS_REVISION), v \in ByteResults(PMB_PMBUS_REVISION) :
       LET res == checksupport(Session, PMB_PMBUS_REVISION, r)
           status == pmbus_read_byte_data(PMB_PMBUS_REVISION, v)
           reads == res.ret # 0
           T == [res.S EXCEPT !.bus =
                   @ \o (IF reads THEN read_byte_bus(PMB_PMBUS_REVISION, v) ELSE <<>>)]
       IN /\ Install(T, "pmbus_dev_scan")
          /\ ~reads => v = PlainByte(PMB_PMBUS_REVISION)
          /\ revision' = IF reads /\ status >= 0 THEN status ELSE revision
          /\ last' = Did("checksupport", PMB_PMBUS_REVISION, res.ret)
          /\ said' = Told(res, PMB_PMBUS_REVISION)
  /\ pc' = "page"
  /\ UNCHANGED <<args, funcs, enable_pec, use_pec, capability, pec, idx>>

\* main() before the scan, leaving the -p option as the operator gave it
MainAttach_keeping_pec ==
  /\ pc = "main"
  /\ \E c \in IoctlResults :
       /\ ~Attachable(funcs) => c = 0
       /\ calls.dev + (IF c < 0 THEN 1 ELSE 0) <= MaxDeviations
       /\ calls' = [calls EXCEPT !.dev = @ + (IF c < 0 THEN 1 ELSE 0)]
       /\ IF ~Attachable(funcs) \/ c < 0
          THEN pc' = "exit" /\ last' = Did("main", 0, 1)
          ELSE pc' = "scan_quick" /\ last' = Did("main", 0, 0)
  /\ bus' = <<>>
  /\ UNCHANGED <<args, funcs, enable_pec, op, desc, no_query, use_pec,
                 capability, revision, pec, idx, said>>

\* main() before the scan: the test of the adapter's functionality, the -p
\* option against the adapter, and ioctl(I2C_SLAVE) with outcome c
MainAttach ==
  /\ pc = "main"
  /\ \E c \in IoctlResults :
       /\ ~Attachable(funcs) => c = 0
       /\ calls.dev + (IF c < 0 THEN 1 ELSE 0) <= MaxDeviations
       /\ calls' = [calls EXCEPT !.dev = @ + (IF c < 0 THEN 1 ELSE 0)]
       /\ IF ~Attachable(funcs) \/ c < 0
          THEN pc' = "exit" /\ last' = Did("main", 0, 1)
          ELSE pc' = "scan_quick" /\ last' = Did("main", 0, 0)
  /\ enable_pec' = IF Attachable(funcs) /\ "PEC" \notin funcs THEN 0 ELSE enable_pec
  /\ bus' = <<>>
  /\ UNCHANGED <<args, funcs, op, desc, no_query, use_pec, capability, revision,
                 pec, idx, said>>

\* main() after the scan, going on whatever the PAGE write returns
MainPage_ignoring_failure ==
  /\ pc = "page"
  /\ \E r \in IoctlResults :
       LET c == pmbus_write_byte_data(0, r)
       IN /\ args.page = -1 => r = 0
          /\ bus' = IF args.page # -1
                    THEN << <<"WRITE_BYTE", 0, args.page, r>> >> ELSE <<>>
          /\ calls.dev + Deviations(bus') <= MaxDeviations
          /\ calls' = [calls EXCEPT !.dev = @ + Deviations(bus')]
          /\ pc' = IF args.show \/ args.list THEN "idle" ELSE "clear"
          /\ last' = Did("pmbus_write_byte_data", 0, c)
  /\ UNCHANGED <<args, funcs, enable_pec, op, desc, no_query, use_pec,
                 capability, revision, pec, idx, said>>

\* main() after the scan: the PAGE write of the -g option, which ends the
\* run when it fails, and the choice to report
MainPage ==
  /\ pc = "page"
  /\ \E r \in IoctlResults :
       LET c == pmbus_write_byte_data(0, r)
       IN /\ args.page = -1 => r = 0
          /\ bus' = IF args.page # -1
                    THEN << <<"WRITE_BYTE", 0, args.page, r>> >> ELSE <<>>
          /\ calls.dev + Deviations(bus') <= MaxDeviations
          /\ calls' = [calls EXCEPT !.dev = @ + Deviations(bus')]
          /\ IF args.page # -1 /\ c < 0
             THEN pc' = "exit" /\ last' = Did("main", 0, 1)
             ELSE /\ pc' = IF args.show \/ args.list THEN "idle" ELSE "clear"
                  /\ last' = Did("pmbus_write_byte_data", 0, c)
  /\ UNCHANGED <<args, funcs, enable_pec, op, desc, no_query, use_pec,
                 capability, revision, pec, idx, said>>

\* a call of checksupport(pmdev, cmd) by one of the reports
ProbeCmds == {5, 6, 36, 48, 49, 254, 65029, 65285}

CheckSupport(cmd) ==
  /\ pc = "idle"
  /\ calls.checksupport < MaxProbes
  /\ \E r \in Responses(cmd) :
       LET res == checksupport(Session, cmd, r)
       IN /\ Install(res.S, "checksupport")
          /\ last' = Did("checksupport", cmd, res.ret)
          /\ said' = Told(res, cmd)
  /\ UNCHANGED <<args, funcs, enable_pec, use_pec, capability, revision, pec, pc, idx>>

\* pmbus_dev_show_p1 from its test of no_query on: the sweep follows unless
\* querying is disabled.  What the function does before that test is calls
\* of checksupport and pmbus_read_block (inventory strings, application
\* profiles), which are the steps CheckSupport and ReadBlock.
SweepBegin ==
  /\ pc = "idle"
  /\ calls.show_p1 < MaxSweeps
  /\ calls' = [calls EXCEPT !.show_p1 = @ + 1]
  /\ pc' = IF no_query # 0 THEN "idle" ELSE "sweep"
  /\ idx' = 1
  /\ bus' = <<>>
  /\ last' = Did("pmbus_dev_show_p1", 0, 0)
  /\ UNCHANGED <<args, funcs, enable_pec, op, desc, no_query, use_pec, capability,
                 revision, pec, said>>

\* one iteration of the sweep: query(pmdev, op) for the next catalog entry
SweepStep ==
  /\ pc = "sweep"
  /\ no_query = 0
  /\ idx <= NOPS
  /\ \E r \in Affordable(pmbus_ops[idx].cmd) :
       Install(query(Session, idx, r), "query")
  /\ idx' = idx + 1
  /\ last' = Did("query", pmbus_ops[idx].cmd, 0)
  /\ UNCHANGED <<args, funcs, enable_pec, use_pec, capability, revision, pec, pc, said>>

\* the sweep's loop ended by a command code of zero instead of the empty tag
SweepEnd_at_code_zero ==
  /\ pc = "sweep"
  /\ ~(no_query = 0 /\ idx <= NOPS /\ pmbus_ops[idx].cmd # 0)
  /\ pc' = "idle"
  /\ bus' = <<>>
  /\ last' = Did("show_commands", 0, 0)
  /\ UNCHANGED <<args, funcs, enable_pec, op, desc, no_query, use_pec, capability,
                 revision, pec, idx, said, calls>>

\* the sweep's loop condition fails: end of the catalog, or no_query set
SweepEnd ==
  /\ pc = "sweep"
  /\ ~(no_query = 0 /\ idx <= NOPS)
  /\ pc' = "idle"
  /\ bus' = <<>>
  /\ last' = Did("show_commands", 0, 0)
  /\ UNCHANGED <<args, funcs, enable_pec, op, desc, no_query, use_pec, capability,
                 revision, pec, idx, said, calls>>

\* pmbus_list_inventory, of which the model keeps the first string:
\* pmbus_read_string(pmdev, PMB_MFR_ID).  The inventory precedes the sweep
\* in pmbus_dev_show_p1.
ListInventory ==
  /\ pc = "idle"
  /\ calls.show_p1 = 0
  /\ calls.checksupport < MaxProbes
  /\ \E r \in Responses(PMB_MFR_ID) :
       LET res == checksupport(Session, PMB_MFR_ID, r)
       IN \E b \in (IF res.ret = 0 THEN {PlainBlock}
                    ELSE BlockResponses(PMB_MFR_ID, 255, 1)) :
            LET blk == pmbus_read_block(PMB_MFR_ID, 255, 1, b)
            IN /\ Install([res.S EXCEPT !.bus =
                             @ \o (IF res.ret = 0 THEN <<>> ELSE blk.bus)],
                          "checksupport")
               /\ pec' = IF res.ret = 0 THEN pec ELSE blk.pec
               /\ last' = [fn |-> "pmbus_read_string", cmd |-> PMB_MFR_ID,
                           ret |-> IF res.ret = 0 THEN 0 ELSE blk.ret,
                           arg |-> 255, buf |-> 1,
                           out |-> IF res.ret = 0 THEN <<>> ELSE blk.out]
               /\ said' = Told(res, PMB_MFR_ID)
  /\ UNCHANGED <<args, funcs, enable_pec, use_pec, capability, revision, pc, idx>>

\* showbits(mask, i, bits): the positions of the bits it names, highest
\* first; the parameter mask is a u16
showbits(mask, n) ==
  SelectSeq([k \in 1..n |-> n - k], LAMBDA i : Bit(mask % 65536, i))

\* what the device may return for the status word, the status byte and a
\* detailed status register: 0x8020 and 0x20 name the output voltage
StatusWords == {-EPERM, 0, 32800}

StatusBytes == {-EPERM, 0, 32}

DetailBytes == {-EPERM, 0, 128}

\* the answers a call of checksupport inside a longer step may consume: S is
\* the session the call meets, made says whether the call is made at all
Answers(S, cmd, made) ==
  IF made /\ S.op[cmd] = NULL /\ S.no_query = 0 /\ S.op[PMB_QUERY] # unsupported
  THEN Affordable(cmd)
  ELSE {NoResponse}

\* pmbus_dev_show_status: the status word if checksupport does not return
\* 0 for it, else the status byte; showbits of the value; then the detailed
\* registers the value selects, of which the model keeps the first,
\* show_status_vout, which is status_byte(pmdev, PMB_STATUS_VOUT, ...).
\* last.arg tells whether showbits was reached, last.out what it named,
\* last.ret is the variable value, last.cmd the register it was read from.
ShowStatus ==
  /\ pc = "idle"
  /\ args.show
  /\ calls.show_p1 > 0
  /\ \E r1 \in Answers(Session, PMB_STATUS_WORD, TRUE), w \in StatusWords :
     \E res1 \in {checksupport(Session, PMB_STATUS_WORD, r1)} :
       LET readsW == res1.ret # 0
           valueW == IF readsW THEN pmbus_read_word_data(PMB_STATUS_WORD, w)
                     ELSE -EINVAL
           ret1 == readsW /\ res1.ret = 1 /\ valueW < 0
           triesB == ~ret1 /\ valueW < 0
       IN /\ ~readsW => w = PlainByte(PMB_STATUS_WORD)
          /\ \E S1 \in {[res1.S EXCEPT !.bus =
                            @ \o (IF readsW
                                  THEN << <<"READ_WORD", PMB_STATUS_WORD, 0, w>> >>
                                  ELSE <<>>)]} :
             \E r2 \in Answers(S1, PMB_STATUS_BYTE, triesB), b \in StatusBytes :
             \E res2 \in {checksupport(S1, PMB_STATUS_BYTE, r2)} :
               LET readsB == triesB /\ res2.ret # 0
                   valueB == pmbus_read_byte_data(PMB_STATUS_BYTE, b)
                   ret2 == readsB /\ valueB < 0
                   value == IF readsB THEN valueB ELSE valueW
                   decoded == ~ret1 /\ ~ret2
                   detail == decoded /\ (Bit(value % 65536, 15) \/ Bit(value % 65536, 5))
               IN /\ ~readsB => b = PlainByte(PMB_STATUS_BYTE)
                  /\ \E S2 \in {IF triesB
                                 THEN [res2.S EXCEPT !.bus =
                                         @ \o (IF readsB
                                               THEN read_byte_bus(PMB_STATUS_BYTE, b)
                                               ELSE <<>>)]
                                 ELSE S1} :
                     \E r3 \in Answers(S2, PMB_STATUS_VOUT, detail), v \in DetailBytes :
                     \E res3 \in {checksupport(S2, PMB_STATUS_VOUT, r3)} :
                       LET readsV == detail /\ res3.ret # 0
                           S3 == IF detail
                                 THEN [res3.S EXCEPT !.bus =
                                         @ \o (IF readsV
                                               THEN read_byte_bus(PMB_STATUS_VOUT, v)
                                               ELSE <<>>)]
                                 ELSE S2
                       IN /\ ~readsV => v = PlainByte(PMB_STATUS_VOUT)
                          /\ \E T \in {S3} : Install(T, "pmbus_dev_show_status")
                          /\ last' = [fn |-> "pmbus_dev_show_status",
                                      cmd |-> IF readsB /\ valueB >= 0
                                              THEN PMB_STATUS_BYTE
                                              ELSE IF valueW >= 0 THEN PMB_STATUS_WORD
                                              ELSE 0,
                                      ret |-> value,
                                      arg |-> IF decoded THEN 1 ELSE 0,
                                      buf |-> NULL,
                                      out |-> IF decoded THEN showbits(value, 16)
                                              ELSE <<>>]
                          /\ said' = said
                               \cup (IF res1.ret = 0 THEN {PMB_STATUS_WORD} ELSE {})
                               \cup (IF triesB /\ res2.ret = 0
                                     THEN {PMB_STATUS_BYTE} ELSE {})
                               \cup (IF detail /\ res3.ret = 0
                                     THEN {PMB_STATUS_VOUT} ELSE {})
  /\ pc' = "shown"
  /\ UNCHANGED <<args, funcs, enable_pec, use_pec, capability, revision, pec, idx>>

\* pmbus_dev_show returns without the listing (no -l option)
ShowReturn ==
  /\ pc = (IF args.show THEN "shown" ELSE "idle")
  /\ ~args.list
  /\ calls.show_p1 > 0
  /\ pc' = "clear"
  /\ bus' = <<>>
  /\ last' = Did("pmbus_dev_show", 0, 1)
  /\ UNCHANGED <<args, funcs, enable_pec, op, desc, no_query, use_pec,
                 capability, revision, pec, idx, said, calls>>

\* main() after the reports: pmbus_clear_fault (the -C option)
MainClear ==
  /\ pc = "clear"
  /\ \E r \in (IF args.clear THEN Responses(PMB_CLEAR_FAULT) ELSE {NoResponse}),
        w \in IoctlResults :
       LET res == checksupport(Session, PMB_CLEAR_FAULT, r)
           writes == args.clear /\ res.ret # 0
           T == IF ~args.clear THEN Session
                ELSE [res.S EXCEPT !.bus =
                        @ \o (IF writes
                              THEN << <<"SEND_BYTE", PMB_CLEAR_FAULT, 0, w>> >>
                              ELSE <<>>)]
       IN /\ Install(T, "main")
          /\ ~writes => w = 0
          /\ last' = Did("pmbus_clear_fault", PMB_CLEAR_FAULT,
                         IF args.clear THEN res.ret ELSE 0)
          /\ said' = IF args.clear THEN Told(res, PMB_CLEAR_FAULT) ELSE said
  /\ pc' = "mfr"
  /\ UNCHANGED <<args, funcs, enable_pec, use_pec, capability, revision, pec, idx>>

\* main()'s last part: the manufacturer specific command of the -m option,
\* sent unless checksupport says the device does not have it; returns 0
MainMfr ==
  /\ pc = "mfr"
  /\ \E r \in (IF args.mfr_cmd # 0 THEN Responses(args.mfr_cmd) ELSE {NoResponse}),
        w \in IoctlResults :
       LET res == checksupport(Session, args.mfr_cmd, r)
           issues == args.mfr_cmd # 0 /\ res.ret # 0
           T == IF args.mfr_cmd = 0 THEN Session
                ELSE [res.S EXCEPT !.bus =
                        @ \o (IF issues
                              THEN << <<"SEND_BYTE", args.mfr_cmd, 0, w>> >>
                              ELSE <<>>)]
       IN /\ Install(T, "main")
          /\ ~issues => w = 0
          /\ said' = IF args.mfr_cmd # 0 THEN Told(res, args.mfr_cmd) ELSE said
  /\ pc' = "done"
  /\ last' = Did("main", 0, 0)
  /\ UNCHANGED <<args, funcs, enable_pec, use_pec, capability, revision, pec, idx>>

\* a call of pmbus_read_block
ReadArgs ==
  {[cmd |-> PMB_MFR_ID, len |-> n, buf |-> 1] : n \in ReadLens}
    \cup {[cmd |-> PMB_MFR_ID, len |-> 0, buf |-> 1],
          [cmd |-> PMB_MFR_ID, len |-> 20, buf |-> NULL],
          [cmd |-> 254, len |-> 20, buf |-> 1],
          [cmd |-> 256, len |-> 20, buf |-> 1],
          [cmd |-> 65029, len |-> 20, buf |-> 1],
          [cmd |-> 65029, len |-> 20, buf |-> NULL]}

ReadBlock ==
  /\ pc = "idle"
  /\ \E a \in ReadArgs : \E r \in BlockResponses(a.cmd, a.len, a.buf) :
       LET res == pmbus_read_block(a.cmd, a.len, a.buf, r)
       IN /\ Install([Session EXCEPT !.bus = res.bus], "read")
          /\ pec' = res.pec
          /\ last' = [fn |-> "pmbus_read_block", cmd |-> a.cmd, ret |-> res.ret,
                      arg |-> a.len, buf |-> a.buf, out |-> res.out]
  /\ UNCHANGED <<args, funcs, enable_pec, use_pec, capability, revision, pc, idx, said>>

\* a call of pmbus_read_byte_data, pmbus_read_word_data,
\* pmbus_write_byte_data or pmbus_write_word_data by a report or by main()
TransferKinds == {"READ_BYTE", "READ_WORD", "WRITE_BYTE", "WRITE_WORD"}

Transfer(cmd) ==
  /\ pc = "idle"
  /\ \E kind \in TransferKinds, ok \in BOOLEAN :
       LET v == IF ~ok THEN -EPERM
                ELSE IF kind \in {"WRITE_BYTE", "WRITE_WORD"} THEN 0 ELSE 23
           ret == IF kind = "READ_BYTE" THEN pmbus_read_byte_data(cmd, v)
                  ELSE IF kind = "READ_WORD" THEN pmbus_read_word_data(cmd, v)
                  ELSE IF kind = "WRITE_BYTE" THEN pmbus_write_byte_data(cmd, v)
                  ELSE pmbus_write_word_data(cmd, v)
       IN /\ Install([Session EXCEPT !.bus =
                        IF ret = v THEN << <<kind, cmd, 0, v>> >> ELSE <<>>],
                     "transfer")
          /\ last' = Did(IF kind = "READ_BYTE" THEN "pmbus_read_byte_data"
                         ELSE IF kind = "READ_WORD" THEN "pmbus_read_word_data"
                         ELSE IF kind = "WRITE_BYTE" THEN "pmbus_write_byte_data"
                         ELSE "pmbus_write_word_data", cmd, ret)
  /\ UNCHANGED <<args, funcs, enable_pec, use_pec, capability, revision, pec, pc,
                 idx, said>>

\* a call of pmbus_write_block
WriteArgs ==
  {[cmd |-> c, len |-> 4, buf |-> 1] : c \in {PMB_MFR_ID, 254, 256, 65029}}
    \cup {[cmd |-> PMB_MFR_ID, len |-> 40, buf |-> 1],
          [cmd |-> PMB_MFR_ID, len |-> 256, buf |-> 1],
          [cmd |-> 65029, len |-> 0, buf |-> 1],
          [cmd |-> 65029, len |-> 256, buf |-> 1],
          [cmd |-> 65029, len |-> 4, buf |-> NULL]}

WriteBlock ==
  /\ pc = "idle"
  /\ \E a \in WriteArgs, r \in IoctlResults :
       LET res == pmbus_write_block(a.cmd, a.len, a.buf, r)
       IN /\ Install([Session EXCEPT !.bus = res.bus], "write")
          /\ res.bus = <<>> => r = 0
          /\ last' = [fn |-> "pmbus_write_block", cmd |-> a.cmd, ret |-> res.ret,
                      arg |-> a.len, buf |-> a.buf, out |-> <<>>]
  /\ UNCHANGED <<args, funcs, enable_pec, use_pec, capability, revision, pec, pc,
                 idx, said>>

(***************************************************************************)
(* pmbus_dev_show_values: the decoders.  A double is modelled by the       *)
(* fraction it holds, <<numerator, denominator>> in lowest terms with a    *)
(* positive denominator; every value the decoders produce from a 16-bit    *)
(* word is exact in a double.  A division by zero gives denominator 0.     *)
(***************************************************************************)
RECURSIVE GCD(_, _)
GCD(a, b) == IF b = 0 THEN a ELSE GCD(b, a % b)

Abs(x) == IF x < 0 THEN -x ELSE x

Sign(x) == IF x < 0 THEN -1 ELSE IF x > 0 THEN 1 ELSE 0

Ratio(n, d) ==
  IF d = 0 THEN <<Sign(n), 0>>
  ELSE LET g == GCD(Abs(n), Abs(d))
       IN <<(Sign(d) * n) \div g, Abs(d) \div g>>

\* d *= k, d /= k and d -= k for an integer k
times(x, k) == Ratio(x[1] * k, x[2])

over(x, k) == Ratio(x[1], x[2] * k)

minus(x, k) == Ratio(x[1] - k * x[2], x[2])

\* the loops that double, halve, multiply by ten and divide by ten n times
RECURSIVE repeat_times(_, _, _)
repeat_times(x, k, n) == IF n > 0 THEN repeat_times(times(x, k), k, n - 1) ELSE x

RECURSIVE repeat_over(_, _, _)
repeat_over(x, k, n) == IF n > 0 THEN repeat_over(over(x, k), k, n - 1) ELSE x

\* vout_mode_is_linear that tests the top 2 bits of the mode byte only
vout_mode_is_linear_two_bits(S) ==
  IF S.op[PMB_VOUT_MODE] = unsupported THEN FALSE
  ELSE (S.desc[S.op[PMB_VOUT_MODE]].c[0].R % 256) \div 64 = 0

\* vout_mode_is_linear(pmdev), for a VOUT_MODE slot that is not NULL
vout_mode_is_linear(S) ==
  IF S.op[PMB_VOUT_MODE] = unsupported THEN FALSE
  ELSE (S.desc[S.op[PMB_VOUT_MODE]].c[0].R % 256) \div 32 = 0

\* pmbus_to_vout_format that takes bit 4 as a sign over a magnitude
pmbus_to_vout_format_magnitude(S, value) ==
  LET low == S.desc[S.op[PMB_VOUT_MODE]].c[0].R % 32
      exponent == IF low >= 16 THEN -(low % 16) ELSE low
  IN IF exponent > 0 THEN repeat_times(<<value, 1>>, 2, exponent)
     ELSE repeat_over(<<value, 1>>, 2, -exponent)

\* pmbus_to_vout_format(pmdev, value)
pmbus_to_vout_format(S, value) ==
  LET low == S.desc[S.op[PMB_VOUT_MODE]].c[0].R % 32
      exponent == IF low >= 16 THEN -(-(low % 16) + (low - (low % 16))) ELSE low
  IN IF exponent > 0 THEN repeat_times(<<value, 1>>, 2, exponent)
     ELSE repeat_over(<<value, 1>>, 2, -exponent)

\* case 0 of the format switch: the LINEAR decoding of a word
case_linear(value) ==
  LET d == IF Bit(value, 10) THEN <<-(value % 1024), 1>> ELSE <<value % 1024, 1>>
  IN IF Bit(value, 15) THEN over(d, 2 ^ ((16 - (value \div 2048)) % 16))
     ELSE IF Bit(value, 14) \/ Bit(value, 13) \/ Bit(value, 12) \/ Bit(value, 8)
          THEN times(d, 2 ^ (value \div 2048))
     ELSE d

\* the DIRECT decoding computed from the write-direction coefficients
case_direct_by_write(o, value) ==
  LET r == o.c[0].R
      d == IF r < 0 THEN repeat_times(<<S16(value), 1>>, 10, -r)
           ELSE repeat_over(<<S16(value), 1>>, 10, r)
  IN over(minus(d, o.c[0].b), o.c[0].m)

\* case 3 of the format switch: the DIRECT decoding of a word, o being the
\* device-variable part of the descriptor
case_direct(o, value) ==
  LET r == o.c[1].R
      d == IF r < 0 THEN repeat_times(<<S16(value), 1>>, 10, -r)
           ELSE repeat_over(<<S16(value), 1>>, 10, r)
  IN over(minus(d, o.c[1].b), o.c[1].m)

\* the format switch on op->query for a word of a command that is not shown
\* in the VOUT format: what is printed after the word in hexadecimal
format_switch(i, o, value) ==
  LET class == (o.query \div 4) % 8
  IN IF class = 0
     THEN IF pmbus_ops[i].units = "BITS" THEN <<"(BITMAP)", <<0, 1>> >>
          ELSE <<"LINEAR", case_linear(value)>>
     ELSE IF class = 1 THEN <<"u16", <<value, 1>> >>
     ELSE IF class = 3 THEN <<"DIRECT", case_direct(o, value)>>
     ELSE IF class = 4 THEN <<"u8", <<value % 256, 1>> >>
     ELSE IF class = 5 THEN <<"u16 (VID)", <<0, 1>> >>
     ELSE IF class = 6 THEN <<"manufacturer specific", <<0, 1>> >>
     ELSE <<"unknown format", <<0, 1>> >>

\* one iteration of the loop of pmbus_dev_show_values, for slot i; v is the
\* outcome of the read ioctl the iteration makes.  ret is the value read,
\* out what is printed for it (nothing, or the format and the number).
show_value(S, i, v) ==
  LET o == S.op[i]
      d == pmbus_ops[o]
      none == [ret |-> 0, out |-> <<>>, bus |-> <<>>]
      byte == [none EXCEPT !.ret = pmbus_read_byte_data(d.cmd, v),
                           !.bus = read_byte_bus(d.cmd, v)]
      word == [none EXCEPT !.ret = pmbus_read_word_data(d.cmd, v),
                           !.bus = << <<"READ_WORD", d.cmd, 0, v>> >>]
  IN IF o = unsupported \/ o = NULL THEN none
     ELSE IF \E f \in {FLG_SHOW_P1, FLG_STATUS} : Bit(d.flags \div f, 0) THEN none
     ELSE IF d.type \in {"RW1", "R1"}
          THEN IF byte.ret < 0 THEN byte
               ELSE [byte EXCEPT !.out = <<"(BITMAP)", <<0, 1>> >>]
     ELSE IF d.type \in {"RW2", "R2"}
          THEN IF word.ret < 0 THEN word
               ELSE IF d.flags = FLG_FORMAT_VOUT /\ vout_mode_is_linear(S)
                    THEN [word EXCEPT !.out =
                            <<"VOUT", pmbus_to_vout_format(S, word.ret)>>]
               ELSE [word EXCEPT !.out = format_switch(o, S.desc[o], word.ret)]
     ELSE none

\* the words a device may hold: every exponent field with the mantissa
\* fields at and around the boundaries of the sign and of bit 8, and the two
\* words of the DIRECT examples
Mantissas == {0, 1, 2, 255, 256, 1023, 1024, 1025, 2046, 2047}

RawWords == {e * 2048 + m : e \in 0..31, m \in Mantissas} \cup {3, 250}

\* the outcomes of the read an iteration makes for slot i
Readings(i) ==
  IF op[i] \in {NULL, unsupported} THEN {0}
  ELSE IF \E f \in {FLG_SHOW_P1, FLG_STATUS} : Bit(pmbus_ops[op[i]].flags \div f, 0)
       THEN {0}
  ELSE IF pmbus_ops[op[i]].type \in {"RW1", "R1"}
       THEN {-EPERM, PlainByte(i)}
  ELSE IF pmbus_ops[op[i]].type \in {"RW2", "R2"}
       THEN RawWords \cup {-EPERM}
  ELSE {0}

\* the first slot at or after i that the model's table has, or 255
NextSlot(i) ==
  LET later == {c \in DOMAIN op : c >= i /\ c < 255}
  IN IF later = {} THEN 255
     ELSE CHOOSE c \in later : \A e \in later : c <= e

\* the loop of pmbus_dev_show_values; idx is its slot index i
ShowValuesStep ==
  /\ pc = "values"
  /\ idx < 255
  /\ \E v \in Readings(idx) :
       LET res == show_value(Session, idx, v)
       IN /\ bus' = res.bus
          /\ last' = [fn |-> "pmbus_dev_show_values", cmd |-> idx,
                      ret |-> res.ret, arg |-> 0, buf |-> NULL, out |-> res.out]
  /\ idx' = NextSlot(idx + 1)
  /\ UNCHANGED <<args, funcs, enable_pec, op, desc, no_query, use_pec, capability,
                 revision, pec, pc, said, calls>>

\* the loop ends; pmbus_dev_show_values returns
ShowValuesEnd ==
  /\ pc = "values"
  /\ idx >= 255
  /\ pc' = "shown"
  /\ bus' = <<>>
  /\ last' = Did("pmbus_dev_show", 0, 0)
  /\ UNCHANGED <<args, funcs, enable_pec, op, desc, no_query, use_pec, capability,
                 revision, pec, idx, said, calls>>

(***************************************************************************)
(* pmbus_dev_show_commands: the format the listing names for each bound    *)
(* command.                                                                *)
(***************************************************************************)
\* the switch on op->query for a word command that is not listed in the
\* VOUT format, o being the device-variable part of the descriptor
command_format_switch(i, o) ==
  LET class == (o.query \div 4) % 8
  IN IF class = 0
     THEN IF pmbus_ops[i].units = "BITS" THEN "u16 (bitmask)" ELSE "s16 (LINEAR)"
     ELSE IF class = 3 THEN "s16 (DIRECT)"
     ELSE IF class = 5 THEN "u16 (VID)"
     ELSE IF class = 6 THEN "x16 (MFR)"
     ELSE "x16 (UNKNOWN)"

\* one iteration of the loop of pmbus_dev_show_commands, for slot i: the
\* format printed, or nothing for a slot that is skipped
show_command(S, i) ==
  LET o == S.op[i]
      d == pmbus_ops[o]
  IN IF o = unsupported \/ o = NULL THEN <<>>
     ELSE IF d.type = "W0" THEN <<"nodata">>
     ELSE IF d.type \in {"RW1", "W1", "R1"} THEN <<"u8 (bitmask)">>
     ELSE IF d.type \in {"RW2", "R2"}
          THEN IF d.flags = FLG_FORMAT_VOUT /\ vout_mode_is_linear(S)
               THEN <<"x16 (VOUT_MODE)">>
               ELSE <<command_format_switch(o, S.desc[o])>>
     ELSE IF d.type \in {"RWB", "RWB14"} THEN <<"block">>
     ELSE IF d.type \in {"RWP_QUERY", "RWP_COEFF"} THEN <<"process_call">>
     ELSE IF d.type = "RWB_APP_PROFILE" THEN <<"(Application Profile)">>
     ELSE <<"(UNKNOWN call syntax)">>

\* pmbus_dev_show goes on to the listing (the -l option)
ShowCommandsBegin ==
  /\ pc = (IF args.show THEN "shown" ELSE "idle")
  /\ args.list
  /\ calls.show_p1 > 0
  /\ pc' = "commands"
  /\ idx' = NextSlot(0)
  /\ bus' = <<>>
  /\ last' = Did("pmbus_dev_show", 0, 0)
  /\ UNCHANGED <<args, funcs, enable_pec, op, desc, no_query, use_pec, capability,
                 revision, pec, said, calls>>

\* the loop of pmbus_dev_show_commands; idx is its slot index i
ShowCommandsStep ==
  /\ pc = "commands"
  /\ idx < 255
  /\ bus' = <<>>
  /\ last' = [fn |-> "pmbus_dev_show_commands", cmd |-> idx, ret |-> 0,
              arg |-> 0, buf |-> NULL, out |-> show_command(Session, idx)]
  /\ idx' = NextSlot(idx + 1)
  /\ UNCHANGED <<args, funcs, enable_pec, op, desc, no_query, use_pec, capability,
                 revision, pec, pc, said, calls>>

\* the loop ends; pmbus_dev_show_commands and pmbus_dev_show return
ShowCommandsEnd ==
  /\ pc = "commands"
  /\ idx >= 255
  /\ pc' = "clear"
  /\ bus' = <<>>
  /\ last' = Did("pmbus_dev_show", 0, 1)
  /\ UNCHANGED <<args, funcs, enable_pec, op, desc, no_query, use_pec, capability,
                 revision, pec, idx, said, calls>>

(***************************************************************************)
(* Specifications.                                                         *)
(***************************************************************************)
Start ==
  /\ args = Reporting
  /\ op = [c \in SlotCodes \cup {65029, 65285} |-> NULL]
  /\ desc = [i \in 1..NOPS |-> NoDesc]
  /\ no_query = 0
  /\ use_pec = 0
  /\ capability = 0
  /\ revision = 0
  /\ pec = 0
  /\ pc = "scan_quick"
  /\ idx = 1
  /\ bus = <<>>
  /\ last = Did("main", 0, 0)
  /\ said = {}
  /\ calls = [checksupport |-> 0, show_p1 |-> 0, dev |-> 0, fetched |-> {}]

\* the negotiation: adapters with native block process calls, or raw I2C only
Init ==
  /\ funcs \in {{"QUICK", "READ_BLOCK_DATA", "BLOCK_PROC_CALL"}, {"I2C"}}
  /\ enable_pec = 0
  /\ Start

Next ==
  \/ ScanQuick
  \/ ScanQuery
  \/ ScanCapability
  \/ ScanRevision
  \/ MainPage
  \/ \E cmd \in ProbeCmds : CheckSupport(cmd)
  \/ SweepBegin
  \/ SweepStep
  \/ SweepEnd

Spec == Init /\ [][Next]_vars

\* The scan followed by the sweep alone.  The sweep is one loop of one
\* thread: once entered, its iterations and its exit are taken as long as
\* they are possible.
NextSweep ==
  \/ ScanQuick
  \/ ScanQuery
  \/ ScanCapability
  \/ ScanRevision
  \/ MainPage
  \/ SweepBegin
  \/ SweepStep
  \/ SweepEnd

SpecSweep ==
  Init /\ [][NextSweep]_vars /\ WF_vars(SweepStep) /\ WF_vars(SweepEnd)

\* block reads: every attachable adapter that has block process calls, with
\* and without the -p option
Adapters ==
  {f \in SUBSET {"READ_BLOCK_DATA", "BLOCK_PROC_CALL", "I2C", "PEC"} :
     "BLOCK_PROC_CALL" \in f /\ Attachable(f)}

\* the negotiations a block-read session makes after the scan, and the
\* registers it transfers bytes and words to and from
ProbeCmdsRB == {PMB_COEFFICIENTS}

TransferCmdsRB == {PMB_VOUT_MODE, 65029}

InitRB ==
  /\ funcs \in Adapters
  /\ enable_pec \in {e \in {0, 1} : e = 1 => "PEC" \in funcs}
  /\ Start

NextRB ==
  \/ ScanQuick
  \/ ScanQuery
  \/ ScanCapability
  \/ ScanRevision
  \/ MainPage
  \/ \E cmd \in ProbeCmdsRB : CheckSupport(cmd)
  \/ ReadBlock
  \/ \E cmd \in TransferCmdsRB : Transfer(cmd)

SpecRB == InitRB /\ [][NextRB]_vars

\* the transport primitives on their own: the adapters differ in the block
\* transfers they have, and the command codes lie on both sides of each
\* boundary of is_pmb_8bit and is_pmb_extended
AdaptersIO ==
  {{"READ_BLOCK_DATA", "WRITE_BLOCK_DATA", "BLOCK_PROC_CALL"},
   {"READ_BLOCK_DATA", "BLOCK_PROC_CALL"},
   {"I2C"},
   {"READ_BLOCK_DATA", "WRITE_BLOCK_DATA", "BLOCK_PROC_CALL", "I2C", "PEC"}}

TransferCmds == {PMB_VOUT_MODE, 253, 254, 255, 256, 65023, 65024, 65029, 65535}

InitIO ==
  /\ funcs \in AdaptersIO
  /\ enable_pec = IF "PEC" \in funcs THEN 1 ELSE 0
  /\ Start

NextIO ==
  \/ ScanQuick
  \/ ScanQuery
  \/ ScanCapability
  \/ ScanRevision
  \/ MainPage
  \/ ReadBlock
  \/ WriteBlock
  \/ \E cmd \in TransferCmds : Transfer(cmd)

SpecIO == InitIO /\ [][NextIO]_vars

\* the value report on its own.  It starts where pmbus_dev_show_values is
\* entered, with a table as the sweep of a device leaves it: every catalog
\* command bound, VOUT_MODE bound with the mode byte v in both R fields or
\* unsupported, and the query byte and coefficients of the word commands as
\* the device chose them.  One command varies at a time: vout_max with the
\* state of VOUT_MODE, pout_max with its coefficients, or the status word.
\* The listing of pmbus_dev_show_commands follows the values.
MaxR == 3

VoutModes == {0, 15, 16, 23, 31, 32, 64, 255}

ShowQueries == {160, 164, 168, 172, 176, 180, 184, 188}

ReadCoefficients ==
  {[valid |-> 1, R |-> r, m |-> m, b |-> b] :
     r \in -MaxR..MaxR, m \in {1, -1, 25}, b \in {0, -100}}

WriteCoefficients == {NoCoefficients, [valid |-> 1, R |-> 1, m |-> 7, b |-> 3]}

LastMatch(cmd) == CHOOSE i \in Matches(cmd) : \A j \in Matches(cmd) : i >= j

Table(v, q7, q9, c1, c0) ==
  [op |-> [c \in SlotCodes \cup {65029, 65285} |->
             IF c = PMB_VOUT_MODE /\ v = unsupported THEN unsupported
             ELSE IF Matches(c) = {} THEN NULL
             ELSE LastMatch(c)],
   desc |-> [i \in 1..NOPS |->
               IF pmbus_ops[i].cmd = PMB_VOUT_MODE /\ v # unsupported
               THEN [query |-> 160,
                     c |-> [d \in 0..1 |-> [NoCoefficients EXCEPT !.R = S8(v)]]]
               ELSE IF pmbus_ops[i].cmd = 36 THEN [NoDesc EXCEPT !.query = q7]
               ELSE IF pmbus_ops[i].cmd = 49
                    THEN [query |-> q9, c |-> [d \in 0..1 |-> IF d = 1 THEN c1 ELSE c0]]
               ELSE [NoDesc EXCEPT !.query = 160]]]

ShowTables ==
  {Table(v, q7, 160, NoCoefficients, NoCoefficients) :
     v \in VoutModes \cup {unsupported}, q7 \in ShowQueries}
    \cup {Table(23, 160, q9, NoCoefficients, NoCoefficients) : q9 \in ShowQueries}
    \cup {Table(23, 160, 172, c1, c0) :
            c1 \in ReadCoefficients, c0 \in WriteCoefficients}
    \cup {Table(23, 160, 236, c1, c0) :
            c1 \in ReadCoefficients, c0 \in WriteCoefficients}
    \cup {[Table(23, 160, 160, NoCoefficients, NoCoefficients)
              EXCEPT !.desc[LastMatch(PMB_STATUS_WORD)].query = q] :
            q \in ShowQueries}

InitShow ==
  /\ args = Reporting
  /\ funcs = {"QUICK", "READ_BLOCK_DATA", "BLOCK_PROC_CALL"}
  /\ enable_pec = 0
  /\ \E t \in ShowTables : op = t.op /\ desc = t.desc
  /\ no_query = 0
  /\ use_pec = 0
  /\ capability = PlainByte(PMB_CAPABILITY)
  /\ revision = PlainByte(PMB_PMBUS_REVISION)
  /\ pec = 0
  /\ pc = "values"
  /\ idx = NextSlot(0)
  /\ bus = <<>>
  /\ last = Did("pmbus_dev_show_status", 0, 0)
  /\ said = {}
  /\ calls = [checksupport |-> 0, show_p1 |-> 1, dev |-> 0,
              fetched |-> {pmbus_ops[i].cmd :
                             i \in {j \in 1..NOPS : desc[j].c[1].valid = 1}}]

NextShow ==
  \/ ShowValuesStep
  \/ ShowValuesEnd
  \/ ShowCommandsBegin
  \/ ShowCommandsStep
  \/ ShowCommandsEnd

SpecShow == InitShow /\ [][NextShow]_vars

\* The call coefficients(pmdev, op, read) that query() makes for a DIRECT
\* command, on its own: the device's six bytes range over the values at the
\* edges of the signed and unsigned readings of a byte, for the descriptor
\* of pout_max and both directions, on a session whose scan met the plain
\* device and whose records are still unset.
EdgeBytes == {0, 127, 128, 254, 255}

CoeffBlocks ==
  {<<5, ml, mh, bl, bh, rr>> : ml \in EdgeBytes, mh \in EdgeBytes,
                               bl \in EdgeBytes, bh \in EdgeBytes,
                               rr \in EdgeBytes}
    \cup {<<4, 255, 255, 255, 255, 254>>, <<6, 1, 0, 1, 0, 1>>}

FetchCoefficients ==
  /\ pc = "idle"
  /\ calls.dev = 0
  /\ \E i \in Matches(49), read \in 0..1, blk \in CoeffBlocks :
       /\ \A d \in 0..1 : desc[i].c[d].valid = 0
       /\ Install(coefficients(Session, i, read, [fail |-> FALSE, block |-> blk]),
                  "coefficients")
       /\ last' = [fn |-> "coefficients", cmd |-> pmbus_ops[i].cmd, ret |-> 0,
                   arg |-> read, buf |-> NULL, out |-> blk]
  /\ UNCHANGED <<args, funcs, enable_pec, use_pec, capability, revision, pec, pc,
                 idx, said>>

InitCoeff ==
  /\ funcs \in {{"QUICK", "READ_BLOCK_DATA", "BLOCK_PROC_CALL"}, {"I2C"}}
  /\ enable_pec = 0
  /\ Start

NextCoeff ==
  \/ ScanQuick
  \/ ScanQuery
  \/ ScanCapability
  \/ ScanRevision
  \/ MainPage
  \/ FetchCoefficients

SpecCoeff == InitCoeff /\ [][NextCoeff]_vars

\* whole runs of main(): adapters with and without the quick probe and PEC,
\* one that main() refuses, and the options that decide what main() does
\* after the scan
AdaptersMain ==
  {{"QUICK", "READ_BLOCK_DATA", "BLOCK_PROC_CALL", "PEC"},
   {"READ_BLOCK_DATA", "BLOCK_PROC_CALL"},
   {"QUICK", "I2C"},
   {"QUICK", "READ_BLOCK_DATA"}}

ArgsMain ==
  {[pec |-> 1, page |-> -1, show |-> TRUE, list |-> FALSE, clear |-> FALSE,
    mfr_cmd |-> 0],
   [pec |-> 0, page |-> 1, show |-> TRUE, list |-> TRUE, clear |-> TRUE,
    mfr_cmd |-> 208],
   [pec |-> 1, page |-> 1, show |-> FALSE, list |-> FALSE, clear |-> TRUE,
    mfr_cmd |-> 208]}

InitMain ==
  /\ args \in ArgsMain
  /\ funcs \in AdaptersMain
  /\ enable_pec = args.pec
  /\ op = [c \in SlotCodes \cup {65029, 65285} |-> NULL]
  /\ desc = [i \in 1..NOPS |-> NoDesc]
  /\ no_query = 0
  /\ use_pec = 0
  /\ capability = 0
  /\ revision = 0
  /\ pec = 0
  /\ pc = "main"
  /\ idx = 1
  /\ bus = <<>>
  /\ last = Did("main", 0, 0)
  /\ said = {}
  /\ calls = [checksupport |-> 0, show_p1 |-> 0, dev |-> 0, fetched |-> {}]

NextMain ==
  \/ MainAttach
  \/ ScanQuick
  \/ ScanQuery
  \/ ScanCapability
  \/ ScanRevision
  \/ MainPage
  \/ ListInventory
  \/ SweepBegin
  \/ SweepStep
  \/ SweepEnd
  \/ ShowStatus
  \/ ShowCommandsBegin
  \/ ShowCommandsStep
  \/ ShowCommandsEnd
  \/ ShowReturn
  \/ MainClear
  \/ MainMfr

SpecMain == InitMain /\ [][NextMain]_vars

(***************************************************************************)
(* Properties of the negotiation, checked under Spec.                      *)
(***************************************************************************)
\* positions in a step's transactions of the exchanges of one kind
Kinds(b, kind) == {k \in 1..Len(b) : b[k][1] = kind}

\* positions of the QUERY exchanges that name cmd
Queries(b, cmd) == {k \in Kinds(b, "QUERY") : b[k][2] = cmd}

\* a QUERY exchange whose answer the code accepts, and the answer's high byte
Echoed(t) == t[4] >= 0 /\ t[4] % 256 = 1

High(t) == t[4] \div 256

\* the step is one call of checksupport and nothing else
OnlyChecksupport == pc \in {"idle", "scan_query"} /\ last'.fn = "checksupport"

\* C1: once checksupport(cmd) has returned 0 (Unsupported) for a command,
\* every later checksupport(cmd) of the session returns 0 again and no step
\* of the session issues a QUERY exchange that names cmd.
C1_UnsupportedIsFinal ==
  [][\A c \in said :
       /\ Queries(bus', c) = {}
       /\ (last'.fn = "checksupport" /\ last'.cmd = c) => last'.ret = 0]_vars

\* C2: a slot that has left NotProbed (NULL) keeps the value it is bound to,
\* Unsupported or a descriptor, in every later step of the session.
C2_SlotsBoundOnce ==
  [][\A c \in DOMAIN op : op[c] # NULL => op'[c] = op[c]]_vars

\* C3: a QUERY exchange that fails or whose answer has a low byte other than
\* 1 sets no_query; once set, no_query stays set, every call of checksupport
\* returns -1 (Unknown) and no QUERY exchange is issued.
C3_NoQueryIsSticky ==
  [][/\ \A k \in Kinds(bus', "QUERY") : ~Echoed(bus'[k]) => no_query' # 0
     /\ no_query # 0 =>
          /\ no_query' # 0
          /\ Kinds(bus', "QUERY") = {}
          /\ last'.fn = "checksupport" => last'.ret = -1]_vars

\* a call of checksupport after the negotiation has failed, for a command
\* that has never been probed
C3_Witness ==
  /\ no_query # 0
  /\ calls.checksupport > 0
  /\ last.fn = "checksupport"
  /\ last.ret = -1
  /\ ~is_pmb_extended(last.cmd)
  /\ op[last.cmd] = NULL
  /\ op[PMB_QUERY] # unsupported
  /\ bus = <<>>

\* the command codes the claim calls the extended namespace: the reserved
\* prefixes 0xFE and 0xFF, alone or as the high byte of a two-byte code
ReservedPrefix(cmd) == cmd \in {254, 255} \/ (cmd \div 256) \in {254, 255}

\* C4 as stated: checksupport(cmd) returns -1 (Unknown), issues no bus
\* transaction and changes no slot whenever cmd is one of the reserved
\* 0xFE/0xFF prefix codes, or the QUERY slot is Unsupported, or no_query is set.
C4_UnknownForPrefixes ==
  [][(/\ OnlyChecksupport
      /\ \/ ReservedPrefix(last'.cmd)
         \/ op[PMB_QUERY] = unsupported
         \/ no_query # 0)
       => (last'.ret = -1 /\ bus' = <<>> /\ op' = op)]_vars

\* C4 amended: checksupport(cmd) returns -1 (Unknown), issues no bus
\* transaction and changes no slot or descriptor whenever cmd is a two-byte
\* extended code (0xFE00..0xFFFF), or the QUERY slot is Unsupported, or
\* no_query is set; a bare prefix code 0xFE or 0xFF that has not been probed
\* is negotiated with a QUERY exchange like any core command.
C4_UnknownWithoutTraffic ==
  [][OnlyChecksupport =>
       /\ (\/ is_pmb_extended(last'.cmd)
           \/ op[PMB_QUERY] = unsupported
           \/ no_query # 0)
            => (last'.ret = -1 /\ bus' = <<>> /\ op' = op /\ desc' = desc)
       /\ (/\ last'.cmd \in {254, 255}
           /\ Matches(last'.cmd) # {}
           /\ op[last'.cmd] = NULL
           /\ op[PMB_QUERY] # unsupported
           /\ no_query = 0)
            => (Queries(bus', last'.cmd) # {} /\ last'.ret # -1)]_vars

\* checksupport has answered Unknown for a two-byte extended code while the
\* negotiation was working
C4_Witness ==
  /\ last.fn = "checksupport"
  /\ is_pmb_extended(last.cmd)
  /\ last.ret = -1
  /\ bus = <<>>
  /\ no_query = 0
  /\ op[PMB_QUERY] \notin {NULL, unsupported}
  /\ calls.checksupport > 0

\* C5: when the answer to QUERY is accepted and bit 7 of its high byte is
\* clear, the slot becomes Unsupported, the descriptors stay as they were
\* and the QUERY exchange is the step's only transaction; when bit 7 is set,
\* the slot is bound to a descriptor of that command whose query byte is the
\* whole high byte.
C5_QueryBit7 ==
  [][\A k \in Kinds(bus', "QUERY") :
       LET t == bus'[k] IN
         /\ (Echoed(t) /\ ~Bit(High(t), 7)) =>
              /\ op'[t[2]] = unsupported
              /\ desc' = desc
              /\ Len(bus') = 1
         /\ (Echoed(t) /\ Bit(High(t), 7)) =>
              /\ op'[t[2]] \in Matches(t[2])
              /\ desc'[op'[t[2]]].query = High(t)]_vars

\* an accepted answer with bit 7 clear, for a command that was not probed
\* before, has just been processed
C5_Witness ==
  /\ Len(bus) = 1
  /\ bus[1][1] = "QUERY"
  /\ Echoed(bus[1])
  /\ ~Bit(High(bus[1]), 7)
  /\ op[bus[1][2]] = unsupported
  /\ desc[FirstMatch(bus[1][2])].query = 0

\* C6: a COEFFICIENTS exchange is issued only for a command whose accepted
\* QUERY answer has format class 3 and only while the COEFFICIENTS slot is
\* bound to a descriptor (neither NotProbed nor Unsupported); then the
\* read-direction fetch is made exactly when bit 5 of the answer is set and
\* the write-direction fetch exactly when bit 6 is set.
C6_CoefficientsWhenAvailable ==
  [][\A k \in Kinds(bus', "QUERY") :
       LET t == bus'[k]
           fetch(dir) == \E j \in Kinds(bus', "COEFFICIENTS") :
                            bus'[j][2] = t[2] /\ bus'[j][3] = dir
           known == op'[PMB_COEFFICIENTS] \notin {NULL, unsupported}
           direct == Echoed(t) /\ Bit(High(t), 7) /\ ((High(t) \div 4) % 8) = 3
       IN /\ (fetch(1) \/ fetch(0)) => (direct /\ known)
          /\ (direct /\ known) => /\ fetch(1) <=> Bit(High(t), 5)
                                  /\ fetch(0) <=> Bit(High(t), 6)]_vars

(***************************************************************************)
(* Properties of block reads and PEC, checked under SpecRB.                *)
(***************************************************************************)
\* the latest step was a block read that got past the argument checks and
\* learnt the declared length
ReadLength ==
  /\ last.fn = "pmbus_read_block"
  /\ Kinds(bus, "READ_BYTE") # {}
  /\ \A k \in Kinds(bus, "READ_BYTE") : bus[k][4] >= 0

Declared == bus[CHOOSE k \in Kinds(bus, "READ_BYTE") : TRUE][4]

\* every transfer of the latest step succeeded, and the block transferred
\* declares the length the length read found
CleanTransfer ==
  /\ \A k \in 1..Len(bus) : bus[k][4] >= 0
  /\ \A k \in Kinds(bus, "READ_BLOCK") \cup Kinds(bus, "I2C_RDWR") :
       bus[k][4] = Declared

\* C7: when a block read that started with use_pec set returns, the adapter's
\* PEC setting is enabled again on every path, a failed read of the block
\* length included (every I2C_PEC ioctl of the block read having succeeded).
C7_PecRestored ==
  (/\ last.fn = "pmbus_read_block"
   /\ use_pec # 0
   /\ \A k \in Kinds(bus, "I2C_PEC") : bus[k][4] = 0)
    => pec = 1

\* C8: once the scan has enabled PEC, the only I2C_PEC ioctls are those of
\* pmbus_read_block: at most one disable, immediately before the byte read
\* of the block length, and at most one enable, immediately after it, both
\* present when that read succeeds; the adapter's PEC setting changes in no
\* other way, and with use_pec clear no step but the scan's enabling of PEC
\* makes an I2C_PEC ioctl.
C8_PecOnlyAroundLength ==
  [][LET P == Kinds(bus', "I2C_PEC") IN
       /\ pec' # pec => \E k \in P : bus'[k][4] = 0 /\ bus'[k][3] = pec'
       /\ (use_pec = 0 /\ P # {}) =>
            /\ pc = "scan_capability"
            /\ P = {Len(bus')}
            /\ bus'[Len(bus')][3] = 1
       /\ use_pec # 0 =>
            /\ P # {} <=> (last'.fn = "pmbus_read_block" /\ Len(bus') > 0)
            /\ P # {} =>
                 /\ bus'[1][1] = "I2C_PEC" /\ bus'[1][3] = 0
                 /\ bus'[2][1] = "READ_BYTE"
                 /\ P \subseteq {1, 3}
                 /\ 3 \in P <=> bus'[2][4] >= 0
                 /\ 3 \in P => bus'[3][3] = 1]_vars

\* a block read of a PEC session has read the length between a disable and
\* an enable of PEC and gone on to the block transfer
C8_Witness ==
  /\ use_pec = 1
  /\ last.fn = "pmbus_read_block"
  /\ Len(bus) = 4
  /\ bus[1] = <<"I2C_PEC", 0, 0, 0>>
  /\ bus[2][1] = "READ_BYTE"
  /\ bus[3] = <<"I2C_PEC", 0, 1, 0>>
  /\ bus[4][1] = "READ_BLOCK"
  /\ pec = 1

C10_FallbackUnsupported ==
  (ReadLength /\ (Declared > I2C_SMBUS_BLOCK_MAX \/ "READ_BLOCK_DATA" \notin funcs))
    => IF "I2C" \in funcs
       THEN \E k \in Kinds(bus, "I2C_RDWR") : bus[k][3] = Declared + 1
       ELSE last.ret = -EOPNOTSUPP

\* C10 amended: such a block read makes no native block transfer; with raw
\* I2C it ends with the two-message transfer reading length + 1 bytes;
\* without raw I2C it makes no further transfer, stores nothing and returns
\* the error that sent it to the fallback: -EFBIG for a declared length above
\* 32, -EOPNOTSUPP for the missing native block read.  A native block read
\* that fails takes the same fallback and without raw I2C returns its error.
C10_FallbackKeepsCause ==
  /\ (ReadLength /\ (Declared > I2C_SMBUS_BLOCK_MAX \/ "READ_BLOCK_DATA" \notin funcs))
       => /\ Kinds(bus, "READ_BLOCK") = {}
          /\ IF "I2C" \in funcs
             THEN /\ bus[Len(bus)][1] = "I2C_RDWR"
                  /\ bus[Len(bus)][3] = Declared + 1
             ELSE /\ Kinds(bus, "I2C_RDWR") = {}
                  /\ last.out = <<>>
                  /\ last.ret = IF Declared > I2C_SMBUS_BLOCK_MAX THEN -EFBIG
                                ELSE -EOPNOTSUPP
  /\ (ReadLength /\ \E k \in Kinds(bus, "READ_BLOCK") : bus[k][4] < 0)
       => IF "I2C" \in funcs
          THEN bus[Len(bus)][1] = "I2C_RDWR" /\ bus[Len(bus)][3] = Declared + 1
          ELSE last.ret = bus[Len(bus)][4] /\ last.out = <<>>

\* a declared length above 32 on an adapter without raw I2C
C10_Witness ==
  /\ ReadLength
  /\ Declared > I2C_SMBUS_BLOCK_MAX
  /\ "I2C" \notin funcs
  /\ last.ret = -EFBIG
  /\ Kinds(bus, "I2C_RDWR") = {}

(***************************************************************************)
(* Properties of the transport primitives, checked under SpecIO.           *)
(***************************************************************************)
Primitives ==
  {"pmbus_read_byte_data", "pmbus_read_word_data", "pmbus_read_block",
   "pmbus_write_byte_data", "pmbus_write_word_data", "pmbus_write_block"}

\* the latest call was a block transfer whose buffer or length is refused
\* before the command code is looked at
RefusedBuffer ==
  \/ /\ last.fn = "pmbus_read_block"
     /\ (last.buf = NULL \/ last.arg = 0)
  \/ /\ last.fn = "pmbus_write_block"
     /\ (last.buf = NULL \/ last.arg = 0 \/ last.arg > 255)

\* C11 as stated: every transport primitive called with a command code
\* outside the core space 0x00-0xFD (the prefix codes 0xFE and 0xFF and every
\* 16-bit code included) returns -ENOSYS (NotImplemented) and issues no bus
\* transaction.
C11_NotImplementedOutsideCore ==
  (last.fn \in Primitives /\ ~is_pmb_8bit(last.cmd))
    => (last.ret = -ENOSYS /\ bus = <<>>)

\* C11 amended: such a call issues no bus transaction and returns -ENOSYS
\* (NotImplemented) when the code is an extended one, 0xFE00-0xFFFF, and
\* -EINVAL (InvalidArgument) for every other code outside the core space:
\* the bare prefixes 0xFE and 0xFF and the codes 0x0100-0xFDFF.  The block
\* primitives test their buffer first and return -EINVAL for a null buffer or
\* a refused length whatever the command code is.
C11_OutsideCoreFailsFast ==
  (last.fn \in Primitives /\ ~is_pmb_8bit(last.cmd))
    => /\ bus = <<>>
       /\ last.ret = IF RefusedBuffer THEN -EINVAL
                     ELSE IF is_pmb_extended(last.cmd) THEN -ENOSYS
                     ELSE -EINVAL

\* a word write to the extended code 0xFFFF has been refused
C11_Witness ==
  /\ last.fn = "pmbus_write_word_data"
  /\ last.cmd = 65535
  /\ last.ret = -ENOSYS
  /\ bus = <<>>

(***************************************************************************)
(* Properties of the coefficients and of VOUT_MODE, checked under Spec.    *)
(***************************************************************************)
\* positions of the COEFFICIENTS exchanges for command cmd and direction dir
Fetched(b, cmd, dir) ==
  {j \in Kinds(b, "COEFFICIENTS") : b[j][2] = cmd /\ b[j][3] = dir}

\* a coefficient record without its R field, which the VOUT_MODE special case
\* writes after the fetches
SansR(cmd, c) == IF cmd = PMB_VOUT_MODE THEN [c EXCEPT !.R = 0] ELSE c

\* C12: a COEFFICIENTS exchange that fails, or whose response length byte is
\* not 5, leaves the record of that command and direction (m, b, R, valid) as
\* it was before; the other direction's record changes only by its own
\* completed fetch, no other descriptor changes, and the slot table changes
\* only by the binding the enclosing negotiation has made.
C12_FailedFetchKeepsRecord ==
  [][\A j \in Kinds(bus', "COEFFICIENTS") :
       LET cmd == bus'[j][2]
           dir == bus'[j][3]
           i == op'[cmd]
       IN bus'[j][4] # 5 =>
            /\ i \in Matches(cmd)
            /\ SansR(cmd, desc'[i].c[dir]) = SansR(cmd, desc[i].c[dir])
            /\ IF \E k \in Fetched(bus', cmd, 1 - dir) : bus'[k][4] = 5
               THEN desc'[i].c[1 - dir].valid = 1
               ELSE SansR(cmd, desc'[i].c[1 - dir]) = SansR(cmd, desc[i].c[1 - dir])
            /\ \A k \in (1..NOPS) \ {i} : desc'[k] = desc[k]
            /\ op' = [op EXCEPT ![cmd] = i]
            /\ no_query' = no_query]_vars

\* a fetch has just failed for a record that an earlier fetch had filled in,
\* and the record still holds the earlier coefficients
C12_Witness ==
  \E j \in Kinds(bus, "COEFFICIENTS") :
    /\ bus[j][4] # 5
    /\ op[bus[j][2]] \in Matches(bus[j][2])
    /\ desc[op[bus[j][2]]].c[bus[j][3]].valid = 1
    /\ desc[op[bus[j][2]]].c[bus[j][3]].m # 0

\* C13: a coefficient record's validity flag becomes set only in a step that
\* completes a COEFFICIENTS exchange for that command and direction with a
\* response length byte of exactly 5 (every flag is clear at the start); the
\* byte read of VOUT_MODE, which writes R, sets no flag.
C13_ValidOnlyByFetch ==
  [][\A i \in 1..NOPS : \A dir \in 0..1 :
       (desc'[i].c[dir].valid # 0 /\ desc[i].c[dir].valid = 0)
         => \E j \in Fetched(bus', pmbus_ops[i].cmd, dir) : bus'[j][4] = 5]_vars

\* a completed fetch has just set a validity flag
C13_Witness ==
  \E j \in Kinds(bus, "COEFFICIENTS") :
    /\ bus[j][4] = 5
    /\ op[bus[j][2]] \in Matches(bus[j][2])
    /\ desc[op[bus[j][2]]].c[bus[j][3]].valid = 1

\* C14: when the device reports VOUT_MODE as supported, the R fields of both
\* coefficient records of its descriptor are set to the byte that the direct
\* read of VOUT_MODE returned, and while the slot is bound to the descriptor
\* the two fields are equal.
C14_VoutModeByteInBothRecords ==
  [][/\ \A k \in Queries(bus', PMB_VOUT_MODE) :
          (Echoed(bus'[k]) /\ Bit(High(bus'[k]), 7)) =>
            \E j \in Kinds(bus', "READ_BYTE") :
              /\ bus'[j][2] = PMB_VOUT_MODE
              /\ bus'[j][4] \in 0..255
              /\ desc'[op'[PMB_VOUT_MODE]].c[0].R = S8(bus'[j][4])
              /\ desc'[op'[PMB_VOUT_MODE]].c[1].R = S8(bus'[j][4])
     /\ op'[PMB_VOUT_MODE] \notin {NULL, unsupported} =>
          desc'[op'[PMB_VOUT_MODE]].c[0].R = desc'[op'[PMB_VOUT_MODE]].c[1].R]_vars

Shown(fmt) ==
  /\ last.fn = "pmbus_dev_show_values"
  /\ last.out # <<>>
  /\ last.out[1] = fmt

\* the field x of the given width read as a two's-complement integer
TwosComplement(x, width) == IF x >= 2 ^ (width - 1) THEN x - 2 ^ width ELSE x

\* n * 2^e as a fraction
Scaled(n, e) == IF e >= 0 THEN Ratio(n * 2 ^ e, 1) ELSE Ratio(n, 2 ^ (-e))

\* the fields of a LINEAR11 word
Mantissa11(raw) == TwosComplement(raw % 2048, 11)

Exponent5(raw) == TwosComplement(raw \div 2048, 5)

\* C16: the LINEAR decoding of a 16-bit word yields mantissa * 2^exponent,
\* the mantissa being bits 0-10 and the exponent bits 11-15 of the word, both
\* read as two's-complement integers.
C16_Linear11Decodes ==
  Shown("LINEAR") => last.out[2] = Scaled(Mantissa11(last.ret), Exponent5(last.ret))

\* the LINEAR11 encoding of the value v with exponent e: the word whose
\* mantissa field is v / 2^e, or -1 if that is no integer in -1024..1023
linear11_encode(v, e) ==
  LET q == IF e >= 0 THEN Ratio(v[1], v[2] * 2 ^ e) ELSE Ratio(v[1] * 2 ^ (-e), v[2])
  IN IF q[2] = 1 /\ q[1] \in -1024..1023
     THEN (e % 32) * 2048 + (q[1] % 2048)
     ELSE -1

\* C17: decoding a LINEAR11 word and encoding the decoded value again with
\* the word's exponent gives the word back, for every mantissa in -1024..1023
\* and every exponent in -16..15.
C17_Linear11RoundTrip ==
  Shown("LINEAR") => linear11_encode(last.out[2], Exponent5(last.ret)) = last.ret

\* (signed16(raw) / 10^R - b) / m as one fraction
Direct(raw, c) ==
  IF c.R >= 0 THEN Ratio(S16(raw) - c.b * 10 ^ c.R, c.m * 10 ^ c.R)
  ELSE Ratio(S16(raw) * 10 ^ (-c.R) - c.b, c.m)

\* C18: the DIRECT decoding of a word yields (signed16(raw) / 10^R - b) / m
\* with R, b and m of the command's read-direction coefficients, whatever its
\* write-direction coefficients are (m not being zero); R = 2, m = 1, b = 0,
\* raw = 250 gives 2.5 and R = -2, m = 1, b = 0, raw = 3 gives 300.
C18_DirectDecodes ==
  LET c == desc[op[last.cmd]].c[1]
  IN (Shown("DIRECT") /\ c.m # 0) =>
       /\ last.out[2] = Direct(last.ret, c)
       /\ (c.R = 2 /\ c.m = 1 /\ c.b = 0 /\ last.ret = 250) => last.out[2] = <<5, 2>>
       /\ (c.R = -2 /\ c.m = 1 /\ c.b = 0 /\ last.ret = 3) => last.out[2] = <<300, 1>>

\* the first example has been decoded for a command whose write-direction
\* coefficients are valid and differ from the read-direction ones
C18_Witness ==
  /\ Shown("DIRECT")
  /\ last.ret = 250
  /\ desc[op[last.cmd]].c[1] = [valid |-> 1, R |-> 2, m |-> 1, b |-> 0]
  /\ desc[op[last.cmd]].c[0].valid = 1
  /\ desc[op[last.cmd]].c[0].m = 7
  /\ last.out[2] = <<5, 2>>

\* the mode byte that the negotiation of VOUT_MODE stored in the R fields
VoutModeByte == desc[op[PMB_VOUT_MODE]].c[0].R % 256

\* C19: the VOUT decoding of a word yields raw * 2^E, raw being the unsigned
\* 16-bit word and E the low 5 bits of the stored VOUT_MODE byte read as a
\* two's-complement integer: 0x1F gives -1, 0x10 gives -16, 0x0F gives 15.
C19_VoutRelativeDecodes ==
  Shown("VOUT") =>
    /\ last.out[2] = Scaled(last.ret, TwosComplement(VoutModeByte % 32, 5))
    /\ VoutModeByte = 31 => last.out[2] = Ratio(last.ret, 2)
    /\ VoutModeByte = 16 => last.out[2] = Ratio(last.ret, 65536)
    /\ VoutModeByte = 15 => last.out[2] = <<last.ret * 32768, 1>>

\* the word 3 has been shown as 1.5 under the mode byte 0x1F
C19_Witness ==
  /\ Shown("VOUT")
  /\ VoutModeByte = 31
  /\ last.ret = 3
  /\ last.out[2] = <<3, 2>>

\* the latest iteration printed the word of a command that carries the
\* VOUT format flag
VoutFlagged ==
  /\ last.fn = "pmbus_dev_show_values"
  /\ last.out # <<>>
  /\ Bit(pmbus_ops[op[last.cmd]].flags, 2)

\* VOUT_MODE is unsupported, or its stored byte has one of its top 3 bits set
NotLinear ==
  \/ op[PMB_VOUT_MODE] = unsupported
  \/ /\ op[PMB_VOUT_MODE] # NULL
     /\ VoutModeByte \div 32 # 0

\* C20 as stated: for a command with the VOUT format flag, when VOUT_MODE is
\* unsupported or its stored byte has one of its top 3 bits set, the report
\* applies no numeric decoder to the word: neither the VOUT decoding, nor
\* LINEAR, nor DIRECT.
C20_RawWhenVoutModeNotLinear ==
  (VoutFlagged /\ NotLinear) => last.out[1] \notin {"VOUT", "LINEAR", "DIRECT"}

\* what the report prints for a word by the format class of the QUERY byte
ClassFormats ==
  <<"LINEAR", "u16", "unknown format", "DIRECT", "u8", "u16 (VID)",
    "manufacturer specific", "unknown format">>

\* C20 amended: for a command with the VOUT format flag, when VOUT_MODE is
\* unsupported or its stored byte has one of its top 3 bits set, the report
\* does not apply the VOUT decoding and decodes the word by the format class
\* of the command's own QUERY byte, as for a command without the flag
\* (LINEAR for class 0, DIRECT for class 3); otherwise it applies the VOUT
\* decoding.
C20_FormatClassWhenVoutModeNotLinear ==
  VoutFlagged =>
    IF NotLinear
    THEN last.out[1] = ClassFormats[((desc[op[last.cmd]].query \div 4) % 8) + 1]
    ELSE last.out[1] = "VOUT"

\* with VOUT_MODE unsupported, the word of a VOUT-format command whose QUERY
\* byte has format class 0 has been decoded as LINEAR
C20_Witness ==
  /\ VoutFlagged
  /\ op[PMB_VOUT_MODE] = unsupported
  /\ last.out[1] = "LINEAR"

\* the latest iteration of either report classified the word command it is at
Classified ==
  /\ last.fn \in {"pmbus_dev_show_values", "pmbus_dev_show_commands"}
  /\ last.out # <<>>
  /\ pmbus_ops[op[last.cmd]].type \in {"RW2", "R2"}

\* the class that the name a report prints stands for
ClassNames ==
  [f \in {"(BITMAP)", "u16 (bitmask)"} |-> "Bitmap"]
    @@ [f \in {"VOUT", "x16 (VOUT_MODE)"} |-> "VoutRelative"]
    @@ [f \in {"LINEAR", "s16 (LINEAR)"} |-> "LinearFloat"]
    @@ [f \in {"DIRECT", "s16 (DIRECT)"} |-> "DirectFloat"]
    @@ [f \in {"manufacturer specific", "x16 (MFR)"} |-> "ManufacturerSpecific"]
    @@ [f \in {"unknown format", "x16 (UNKNOWN)"} |-> "Unknown"]
    @@ ("u16" :> "UnsignedInt16") @@ ("u8" :> "UnsignedInt8")
    @@ ("u16 (VID)" :> "VidCode")

\* the reference table, evaluated top to bottom for the command of slot c
ReferenceClass(c) ==
  LET d == pmbus_ops[op[c]]
      class == (desc[op[c]].query \div 4) % 8
  IN IF d.units = "BITS" THEN "Bitmap"
     ELSE IF Bit(d.flags, 2) /\ ~NotLinear THEN "VoutRelative"
     ELSE IF class = 0 THEN "LinearFloat"
     ELSE IF class = 1 THEN "UnsignedInt16"
     ELSE IF class = 3 THEN "DirectFloat"
     ELSE IF class = 4 THEN "UnsignedInt8"
     ELSE IF class = 5 THEN "VidCode"
     ELSE IF class = 6 THEN "ManufacturerSpecific"
     ELSE "Unknown"

\* C21: the value report and the command listing both classify a word
\* command as the reference table does, evaluated top to bottom: Bitmap for
\* the unit BITS whatever the format class, else VoutRelative for the VOUT
\* flag with a linear VOUT_MODE, else by the format class 0, 1, 3, 4, 5, 6,
\* else Unknown; hence the two reports classify a command identically.
C21_ClassifiedByReferenceTable ==
  Classified => ClassNames[last.out[1]] = ReferenceClass(last.cmd)

(***************************************************************************)
(* The value report's use of the coefficients, checked under SpecShow.     *)
(***************************************************************************)
\* C35: the value report prints a word by the DIRECT decoding only for a
\* command whose read-direction coefficient record is valid, so that the
\* divisor m is one the device has sent and is not the zero of a record
\* that was never filled in.
C35_DirectOnlyWithValidCoefficients ==
  Shown("DIRECT") =>
    /\ desc[op[last.cmd]].c[1].valid = 1
    /\ desc[op[last.cmd]].c[1].m # 0

(***************************************************************************)
(* Properties of the slot table as checksupport and the callers of the     *)
(* transfers see it, checked under Spec.                                   *)
(***************************************************************************)
\* the slot of cmd is bound to a descriptor (Resolved)
Resolved(o, cmd) == o[cmd] \notin {NULL, unsupported}

\* C32: checksupport(cmd) returns 1 (Supported) only if at its return the
\* slot of cmd is bound to a descriptor whose stored QUERY byte has bit 7
\* set; never while the slot is still NULL.
C32_SupportedMeansResolved ==
  [][(last'.fn = "checksupport" /\ last'.ret = 1) =>
       /\ Resolved(op', last'.cmd)
       /\ Bit(desc'[op'[last'.cmd]].query, 7)]_vars

(***************************************************************************)
(* Properties of the sweep of pmbus_dev_show_p1, checked under Spec.       *)
(***************************************************************************)
\* C25: an iteration of the sweep issues a QUERY exchange only for a command
\* whose slot is still NotProbed (NULL) before the iteration, and none while
\* the slot of QUERY itself is bound to Unsupported or no_query is set.
C25_SweepThroughChecksupport ==
  [][pc = "sweep" =>
       /\ \A k \in Kinds(bus', "QUERY") : op[bus'[k][2]] = NULL
       /\ (op[PMB_QUERY] = unsupported \/ no_query # 0) =>
            Kinds(bus', "QUERY") = {}]_vars

\* the sweep's loop is left in this step
SweepLeft == pc = "sweep" /\ pc' # "sweep"

\* C26: a sweep that has begun is left; when it is left with no_query clear
\* the slot of the command code of every catalog entry is bound (to
\* Unsupported or to a descriptor); it is left before the end of the catalog
\* only with no_query set.  Checked under SpecSweep.
C26_SweepTerminatesBound ==
  /\ (pc = "sweep") ~> (pc = "idle")
  /\ [][SweepLeft =>
          /\ no_query = 0 => \A i \in 1..NOPS : op[pmbus_ops[i].cmd] # NULL
          /\ idx <= NOPS => no_query # 0]_vars

\* a sweep has run to the end of the catalog with no_query clear
C26_Witness ==
  /\ pc = "idle"
  /\ calls.show_p1 > 0
  /\ idx = NOPS + 1
  /\ no_query = 0
  /\ \A i \in 1..NOPS : op[pmbus_ops[i].cmd] # NULL

(***************************************************************************)
(* Properties of the block primitives' argument checks and of the block    *)
(* write, checked under SpecIO.                                            *)
(***************************************************************************)
\* C29: a block read or write with a null buffer or a zero length, and a
\* block write of more than 255 bytes, returns -EINVAL with no transaction
\* and no change of the adapter's PEC setting, whatever the command code.
C29_BufferCheckedFirst ==
  [][RefusedBuffer' =>
       /\ last'.ret = -EINVAL
       /\ last'.out = <<>>
       /\ bus' = <<>>
       /\ pec' = pec]_vars

\* with PEC in use, a block read and a block write of an extended command
\* have been refused for their buffer
C29_Witness ==
  /\ use_pec = 1
  /\ pec = 1
  /\ bus = <<>>
  /\ last.cmd = 65029
  /\ last.ret = -EINVAL
  /\ \/ last.fn = "pmbus_read_block" /\ last.buf = NULL
     \/ last.fn = "pmbus_write_block" /\ last.arg = 256

\* the step is a block write whose arguments pass the checks
AcceptedWrite ==
  /\ last'.fn = "pmbus_write_block"
  /\ last'.buf # NULL
  /\ last'.arg \in 1..255
  /\ is_pmb_8bit(last'.cmd)
  /\ ~is_pmb_extended(last'.cmd)

\* the bytes of the caller's buffer
WriteBuf(n) == [k \in 1..n |-> WriteData(k)]

\* the step is the SMBus block write of the accepted arguments
NativeWrite ==
  /\ Len(bus') = 1
  /\ bus'[1][1] = "WRITE_BLOCK"
  /\ bus'[1][2] = last'.cmd
  /\ bus'[1][5] = <<last'.arg>> \o WriteBuf(last'.arg)
  /\ last'.ret = bus'[1][4]

\* the step is one I2C message of command, length and payload
RawWrite ==
  /\ Len(bus') = 1
  /\ bus'[1][1] = "I2C_RDWR"
  /\ bus'[1][3] = 2 + last'.arg
  /\ bus'[1][5] = <<last'.cmd, last'.arg>> \o WriteBuf(last'.arg)
  /\ last'.ret = bus'[1][4]

\* C30 as stated: the SMBus block write for a length of at most 32 on an
\* adapter that has it; otherwise one I2C message where the adapter has raw
\* I2C; otherwise no transaction and -EOPNOTSUPP, for every length.
C30_WriteFallbackUnsupported ==
  [][AcceptedWrite =>
       IF last'.arg <= I2C_SMBUS_BLOCK_MAX /\ "WRITE_BLOCK_DATA" \in funcs
       THEN NativeWrite
       ELSE IF "I2C" \in funcs THEN RawWrite
       ELSE bus' = <<>> /\ last'.ret = -EOPNOTSUPP]_vars

\* C30 amended: as above, but without raw I2C the call returns the error
\* that led to the fallback: -EOPNOTSUPP where the adapter has no SMBus
\* block write, -EFBIG where it has one and the length exceeds 32.
C30_WriteFallbackKeepsCause ==
  [][AcceptedWrite =>
       IF last'.arg <= I2C_SMBUS_BLOCK_MAX /\ "WRITE_BLOCK_DATA" \in funcs
       THEN NativeWrite
       ELSE IF "I2C" \in funcs THEN RawWrite
       ELSE /\ bus' = <<>>
            /\ last'.ret = IF "WRITE_BLOCK_DATA" \in funcs THEN -EFBIG
                           ELSE -EOPNOTSUPP]_vars

\* a write of 40 bytes has been refused by an adapter with the SMBus block
\* write and without raw I2C
C30_Witness ==
  /\ last.fn = "pmbus_write_block"
  /\ last.arg = 40
  /\ last.ret = -EFBIG
  /\ "WRITE_BLOCK_DATA" \in funcs
  /\ bus = <<>>

(***************************************************************************)
(* The decoding of a COEFFICIENTS response, checked under SpecCoeff.       *)
(***************************************************************************)
\* C31: a response (5, m_lo, m_hi, b_lo, b_hi, R) leaves the record with
\* m the signed 16-bit value of m_hi*256 + m_lo, b that of b_hi*256 + b_lo,
\* R the signed 8-bit value of the R byte, and valid set.
C31_CoefficientsDecoded ==
  [][(last'.fn = "coefficients" /\ last'.out[1] = 5) =>
       \A i \in Matches(last'.cmd) :
         desc'[i].c[last'.arg] =
           [valid |-> 1,
            m |-> TwosComplement(last'.out[3] * 256 + last'.out[2], 16),
            b |-> TwosComplement(last'.out[5] * 256 + last'.out[4], 16),
            R |-> TwosComplement(last'.out[6], 8)]]_vars

\* the response (5, 0xff, 0xff, 0x80, 0x7f, 0xfe) has been decoded as
\* m = -1, b = 32640, R = -2
C31_Witness ==
  /\ last.fn = "coefficients"
  /\ last.out = <<5, 255, 255, 128, 127, 254>>
  /\ \E i \in Matches(last.cmd) :
       desc[i].c[last.arg] = [valid |-> 1, m |-> -1, b |-> 32640, R |-> -2]

\* a sweep has run to the end of the catalog with no_query clear
SweepComplete ==
  /\ pc = "idle"
  /\ calls.show_p1 > 0
  /\ idx = NOPS + 1
  /\ no_query = 0

\* C36: after a sweep that has run to the end with no_query clear and has
\* left the slot of COEFFICIENTS bound to its descriptor, a read-direction
\* COEFFICIENTS exchange has been issued for every command that is bound to
\* a descriptor whose QUERY byte has format class 3 and bit 5 set, whether
\* its code lies below or above 0x30.  Checked under SpecSweep.
C36_DirectCommandsFetched ==
  (SweepComplete /\ Resolved(op, PMB_COEFFICIENTS)) =>
    \A c \in DOMAIN op :
      (Resolved(op, c) /\ ((desc[op[c]].query \div 4) % 8) = 3
                       /\ Bit(desc[op[c]].query, 5))
        => c \in calls.fetched

\* the commands bound to a descriptor that carries the vout-relative flag
VoutRelative == {c \in DOMAIN op : Resolved(op, c)
                                    /\ pmbus_ops[op[c]].flags = FLG_FORMAT_VOUT}

\* C37: in every state of a session, and so whenever the listing or the
\* value report asks vout_mode_is_linear for a command that is bound to a
\* descriptor carrying the vout-relative flag, the slot of VOUT_MODE is
\* bound (to unsupported or to its descriptor), never NULL.  Checked under
\* SpecMain, for every pattern of device answers and QUERY failures.
C37_VoutModeBoundBeforeUse ==
  VoutRelative # {} => op[PMB_VOUT_MODE] # NULL

\* the listing has asked for vout_max and named the VOUT_MODE format
C37_Witness ==
  /\ last.fn = "pmbus_dev_show_commands"
  /\ last.cmd \in VoutRelative
  /\ last.out = <<"x16 (VOUT_MODE)">>
  /\ Resolved(op, PMB_VOUT_MODE)

\* the raw two-message transfers of the step that succeeded
RawReads == {k \in 1..Len(bus) : bus[k][1] = "I2C_RDWR" /\ bus[k][4] >= 0}

\* C38: a block read stores no more than read_len bytes in the caller's
\* buffer and returns no count above read_len; and when the raw fallback
\* has transferred, the count returned and the bytes stored do not exceed
\* L, the number of data bytes the second message asked for (its length
\* less the length byte), whatever the first byte received says.  Checked
\* under SpecRB.
C38_BlockReadWithinLengths ==
  last.fn = "pmbus_read_block" =>
    /\ Len(last.out) <= last.arg
    /\ last.ret <= last.arg
    /\ \A k \in RawReads : /\ Len(last.out) <= bus[k][3] - 1
                           /\ last.ret <= bus[k][3] - 1

\* the status report of the step decoded nothing and read no detail register
NothingDecoded ==
  /\ last.arg = 0
  /\ last.out = <<>>
  /\ \A k \in 1..Len(bus) :
       ~(bus[k][1] = "READ_BYTE" /\ bus[k][2] = PMB_STATUS_VOUT)

\* C39: the status report decodes summary bits, and reads the detail
\* registers they select, only from a value it has read from STATUS_WORD
\* or, failing that, STATUS_BYTE; with both commands unsupported it decodes
\* nothing and reads no detail register.  Checked under SpecMain.
C39_StatusDecodedFromValueRead ==
  last.fn = "pmbus_dev_show_status" =>
    /\ last.cmd \notin {PMB_STATUS_WORD, PMB_STATUS_BYTE} => NothingDecoded
    /\ (op[PMB_STATUS_WORD] = unsupported /\ op[PMB_STATUS_BYTE] = unsupported)
         => NothingDecoded

(***************************************************************************)
(* Properties of whole runs of main(), checked under SpecMain.             *)
(***************************************************************************)
\* positions in a step's transactions of the failed exchanges of one kind
Failed(b, kind) == {k \in Kinds(b, kind) : b[k][4] < 0}

\* the positions of main() at which the reports, pmbus_clear_fault and the
\* manufacturer specific command run
AfterPage == {"idle", "sweep", "shown", "commands", "clear", "mfr", "done"}

\* C22: when the quick probe fails, it is the step's only transaction, main()
\* returns 1 (pc is "exit"), and no step follows a return of main(): no
\* QUERY, read, PAGE write, clear-faults or manufacturer command, no report.
C22_FailedProbeAborts ==
  [][/\ Failed(bus', "QUICK") # {} => (pc' = "exit" /\ Len(bus') = 1)
     /\ pc # "exit"]_vars

\* the probe has failed and main() has returned 1
C22_Witness ==
  /\ pc = "exit"
  /\ bus = << <<"QUICK", 0, 0, -EPERM>> >>
  /\ last.fn = "pmbus_dev_scan"
  /\ last.ret < 0

\* C23 as stated: on every adapter main() attaches with, the scan's first
\* step issues the quick probe, and no transaction precedes it.
C23_ProbeOnEveryAdapter ==
  [][/\ pc = "main" => bus' = <<>>
     /\ pc = "scan_quick" => (Len(bus') = 1 /\ bus'[1][1] = "QUICK")]_vars

\* C23 amended: the scan's first step issues the quick probe, as the first
\* transaction of the session, exactly when the adapter has the QUICK
\* functionality; on an adapter without it no probe is ever issued and the
\* scan goes on to the negotiation of QUERY.  The probe is issued nowhere
\* else, and the scan starts once, right after main() has attached.
C23_ProbeWhereQuick ==
  [][/\ pc = "main" => bus' = <<>>
     /\ pc = "scan_quick" =>
          IF "QUICK" \in funcs
          THEN Len(bus') = 1 /\ bus'[1][1] = "QUICK"
          ELSE bus' = <<>> /\ pc' = "scan_query"
     /\ Kinds(bus', "QUICK") # {} => pc = "scan_quick"
     /\ pc' = "scan_quick" => pc = "main"
     /\ pc' # "main"]_vars

\* on an adapter without QUICK the scan has negotiated QUERY unprobed
C23_Witness ==
  /\ "QUICK" \notin funcs
  /\ pc = "scan_capability"
  /\ Kinds(bus, "QUERY") # {}

\* C24: use_pec is set, and the adapter's PEC setting enabled, only if the
\* adapter has the PEC functionality, the operator gave -p, and the
\* CAPABILITY byte was read with bit 7 set.
C24_PecNeedsAllThree ==
  (use_pec # 0 \/ pec # 0) =>
    /\ "PEC" \in funcs
    /\ args.pec = 1
    /\ Bit(capability, 7)

\* the scan has enabled PEC
C24_Witness ==
  /\ use_pec = 1
  /\ pec = 1
  /\ pc = "scan_revision"
  /\ Kinds(bus, "I2C_PEC") # {}

\* C27: with -g the PAGE write is the one transaction of the step that
\* follows the scan, and the reports, pmbus_clear_fault and the manufacturer
\* command run only after that step; when the write fails main() returns 1
\* and no step follows.
C27_PageBeforeReports ==
  [][/\ (pc = "page" /\ args.page # -1) =>
          (Len(bus') = 1 /\ bus'[1][1] = "WRITE_BYTE" /\ bus'[1][2] = 0
                         /\ bus'[1][3] = args.page)
     /\ Kinds(bus', "WRITE_BYTE") # {} => pc = "page"
     /\ Failed(bus', "WRITE_BYTE") # {} => pc' = "exit"
     /\ pc' = "page" => pc = "scan_revision"
     /\ (pc' \in AfterPage /\ pc \notin AfterPage) => pc = "page"
     /\ pc # "exit"]_vars

\* the PAGE write has failed and main() has returned 1
C27_Witness ==
  /\ pc = "exit"
  /\ bus = << <<"WRITE_BYTE", 0, 1, -EPERM>> >>
  /\ last = Did("main", 0, 1)

\* C28: a failed read of CAPABILITY leaves pmdev->capability and use_pec as
\* they were, a failed read of PMBUS_REVISION leaves pmdev->revision, a
\* failed COEFFICIENTS exchange leaves the coefficient record; none of them
\* ends the run: past the quick probe the scan always returns 0 and main()
\* goes on.
C28_EnrichmentFailuresSkipped ==
  [][/\ (pc = "scan_capability" /\ Failed(bus', "READ_BYTE") # {}) =>
          (capability' = capability /\ use_pec' = use_pec /\ pc' = "scan_revision")
     /\ (pc = "scan_revision" /\ Failed(bus', "READ_BYTE") # {}) =>
          (revision' = revision /\ pc' = "page")
     /\ \A j \in Kinds(bus', "COEFFICIENTS") :
          bus'[j][4] # 5 =>
            /\ SansR(bus'[j][2], desc'[op'[bus'[j][2]]].c[bus'[j][3]])
                 = SansR(bus'[j][2], desc[op'[bus'[j][2]]].c[bus'[j][3]])
            /\ pc' \notin {"exit", "done"}
     /\ pc \in {"scan_query", "scan_capability", "scan_revision"} => pc' # "exit"]_vars

\* the read of CAPABILITY has failed and the scan has gone on
C28_Witness ==
  /\ pc = "scan_revision"
  /\ Failed(bus, "READ_BYTE") # {}
  /\ capability = 0
  /\ use_pec = 0

\* the transfers that address a command's register, and the send-byte form
\* of a command without data
Addressed == {"READ_BYTE", "READ_WORD", "READ_BLOCK", "WRITE_BYTE", "SEND_BYTE"}

\* C33: no step issues a read, a write or a no-data command for a command
\* whose slot is bound to Unsupported when the transfer is made, nor a
\* COEFFICIENTS exchange while the slot of COEFFICIENTS is bound to
\* Unsupported.  The one binding of a step precedes its transfers, so the
\* slot at the time of a transfer is the slot after the step.
C33_NothingSentToUnsupported ==
  [][/\ \A k \in 1..Len(bus') :
          bus'[k][1] \in Addressed => op'[bus'[k][2]] # unsupported
     /\ Kinds(bus', "COEFFICIENTS") # {} => op'[PMB_COEFFICIENTS] # unsupported]_vars

(***************************************************************************)
(* Properties of the slot table over whole runs, checked under SpecMain.   *)
(***************************************************************************)
\* C34: a slot that is not NULL never becomes NULL again, and a slot bound
\* to a descriptor is bound to a catalog entry of its own command code.
C34_SlotsStayBound ==
  /\ [][\A c \in DOMAIN op : op[c] # NULL => op'[c] # NULL]_vars
  /\ [](\A c \in DOMAIN op : Resolved(op, c) => op[c] \in Matches(c))

\* a sweep has rebound the slot of 0x05, which the catalog lists twice, and
\* has bound a slot to Unsupported
C34_Witness ==
  /\ pc = "shown"
  /\ op[5] = FirstMatch(5) + 1
  /\ \E c \in DOMAIN op : op[c] = unsupported
  /\ \A i \in 1..NOPS : op[pmbus_ops[i].cmd] # NULL

=============================================================================
